---- MODULE Spec2Model ----
(***************************************************************************)
(* WhatsApp webhook ingestion: POST /api/webhook (WebhookController),      *)
(* WhatsAppService.handleIncomingMessage / handleMessageStatus and the     *)
(* PostgreSQL tables of init.sql, accessed through                         *)
(* DatabaseService.transaction (plain BEGIN, i.e. READ COMMITTED) and      *)
(* DatabaseService.query (autocommit).                                     *)
(*                                                                         *)
(* Every webhook delivery is an independent async task; a task is a        *)
(* "worker" below and each awaited SQL statement is one atomic step.       *)
(* Time is in seconds. NOW() is the start time of the transaction.         *)
(*                                                                         *)
(* Customer segmentation: POST /api/segmentation/customer/:customerId      *)
(* (WebhookController.segmentCustomer), LLMService.segmentCustomer,        *)
(* batchSegmentCustomers and parseSegmentationResponse. A segmentation is  *)
(* an async task as well; each awaited query and the awaited classifier    *)
(* call are one step each. Confidences are in hundredths.                  *)
(***************************************************************************)
EXTENDS Integers, Sequences, FiniteSets, TLC

\* ------------------------------------------------------------------ bounds
MaxRequests == 3
MaxClock == 2000
TickStep == 1000
\* Longest list of customer ids handed to batchSegmentCustomers.
MaxBatch == 2
\* Number of on-demand segmentation requests.
MaxSegRequests == 1
\* Longest classifier answer, in chunks (see Chunks).
MaxChunks == 3
\* Most rows of table customers when getCustomersForSegmentation runs.
MaxSelectRows == 3
\* Most rows of table customers when getSegmentationStats runs.
MaxStatsRows == 5
\* Most messages of a history handed to the digest.
MaxMessages == 4
\* Most messages whose bodies are searched for common topics.
MaxTopicMessages == 3
\* Most calls of DatabaseService.query and DatabaseService.transaction.
MaxDbCalls == 3

\* ------------------------------------------------------- program constants
SessionWindowMinutes == 30
MinPhoneLength == 10
StatusOk == 200
StatusBadRequest == 400
StatusWebhookFailure == 503
StatusInternalError == 500
\* confidence: 0.5 of the fallback result, and the upper limit 1.
FallbackConfidence == 50
ConfidenceOne == 100
\* extractCommonTopics: word.length > 3 and slice(0, 10).
MinWordLength == 4
MaxTopics == 10
\* getCustomersForSegmentation: INTERVAL '7 days', total_messages >= 3, and
\* the default of its limit.
SegmentMaxAgeDays == 7
MinTotalMessages == 3
DefaultLimit == 50
SecondsPerDay == 86400
\* dbConfig.max: the clients of the pool.
PoolMax == 20

\* The webhook deliveries that can be in flight at the same time.
Workers == {1, 2}
\* The task that handles every delivery when deliveries do not overlap.
Solo == CHOOSE w \in Workers : \A v \in Workers : w <= v

\* The segmentations that can be in flight at the same time.
SegTasks == {1, 2}

\* The calls of DatabaseService that can be in flight at the same time.
DbOps == 1..MaxDbCalls

SessionWindow == SessionWindowMinutes * 60

NULL == <<>>

Some(v) == <<v>>

\* -------------------------------------------------------------- the inputs
\* Sender identifiers of customers: a plausible number and one that is too
\* short once the transport suffix is stripped.
WaIds == {"6281234567890@c.us", "12345@c.us"}

\* The business's own identifier, the sender of self-sent echoes.
BusinessWaId == "6280000000000@c.us"

\* payload._data.notifyName; "" stands for an absent or empty hint.
NotifyNames == {"", "Budi"}

Statuses == {"read"}

\* payload.timestamp, the event time given by the gateway (seconds).
EventTimestamps == {0}

VARIABLES
  clock,          \* wall clock of the database server, seconds
  nreq,           \* number of webhook deliveries received so far
  nextMsgId,      \* number of distinct external message ids the gateway has issued
  customers,      \* committed rows of table customers
  chat_sessions,  \* committed rows of table chat_sessions
  messages,       \* committed rows of table messages
  pc,             \* per task: position in the handler
  req,            \* per task: the request body being (or last) handled
  resp,           \* per task: HTTP status of the last response, 0 before any
  err,            \* per task: why the last/current request failed
  tx,             \* per task: the open transaction (snapshot time, locals, writes)
  nseg,           \* number of on-demand segmentation requests received so far
  segTasks,       \* per segmentation task: origin, customer id, position, result
  batch,          \* the run of batchSegmentCustomers: ids, loop position, results
  batchLog,       \* what the batch run did so far, in order
  llmText,        \* a classifier answer handed to parseSegmentationResponse
  llmResult,      \* what parseSegmentationResponse returned for llmText
  selLimit,       \* the limit handed to getCustomersForSegmentation
  selected,       \* the rows getCustomersForSegmentation returned, in order
  segStats,       \* what getSegmentationStats returned
  history,        \* what getCustomerConversationHistory hands to the digest
  digest,         \* what formatCustomerDataForAnalysis made of history
  topicMessages,  \* the messages whose bodies extractCommonTopics is fed from
  commonTopics,   \* what extractCommonTopics returned for them
  checkedOut,     \* the pool's clients that are checked out
  dbOps           \* per call of DatabaseService.query/transaction: its position

segVars == <<nseg, segTasks, batch, batchLog>>

parseVars == <<llmText, llmResult>>

queryVars == <<selLimit, selected, segStats>>

digestVars == <<history, digest, topicMessages, commonTopics>>

poolVars == <<checkedOut, dbOps>>

vars == <<clock, nreq, nextMsgId, customers, chat_sessions, messages,
          pc, req, resp, err, tx, segVars, parseVars, queryVars, digestVars, poolVars>>

db == <<customers, chat_sessions, messages>>

\* --------------------------------------------------------- pure functions

\* waId.replace(/@[cg]\.us$/, ''): a trailing "@c.us" or "@g.us" is removed,
\* any other identifier is returned as it is.
extractPhoneNumber(waId) ==
  LET n == Len(waId) IN
  IF n >= 5 /\ SubSeq(waId, n - 4, n) \in {"@c.us", "@g.us"}
  THEN SubSeq(waId, 1, n - 5)
  ELSE waId

\* Variant: only an empty number is rejected.
InvalidPhoneNumberEmptyOnly(phoneNumber) == phoneNumber = ""

\* !phoneNumber || phoneNumber.length < 10
InvalidPhoneNumber(phoneNumber) ==
  phoneNumber = "" \/ Len(phoneNumber) < MinPhoneLength

\* payload._data?.notifyName || null
NameOrNull(notifyName) == IF notifyName = "" THEN NULL ELSE Some(notifyName)

\* WahaWebhookSchema.safeParse(body).success: a discriminated union on
\* 'event' with exactly the two literals 'message' and 'session.status';
\* shapeOk stands for "every required field of the envelope and of the
\* payload is present with the right type".
\* Variant: only the discriminator is looked at.
WahaWebhookSchemaEventOnly(body) ==
  body.event \in {"message", "session.status"}

WahaWebhookSchema(body) ==
  body.event \in {"message", "session.status"} /\ body.shapeOk

\* Variant: self-sent messages are ingested like any other.
FromMeIgnored(payload) == FALSE

\* if (payload.fromMe) return;
FromMe(payload) == payload.fromMe

\* ------------------------------------------------- request bodies (inputs)
CustomerMessageBodies ==
  { [event |-> "message", shapeOk |-> TRUE, id |-> i, from |-> f,
     fromMe |-> FALSE, notifyName |-> n, timestamp |-> t]
      : i \in 1..(nextMsgId + 1), f \in WaIds, n \in NotifyNames,
        t \in EventTimestamps }

SelfSentMessageBodies ==
  { [event |-> "message", shapeOk |-> TRUE, id |-> i, from |-> BusinessWaId,
     fromMe |-> TRUE, notifyName |-> "", timestamp |-> t]
      : i \in 1..(nextMsgId + 1), t \in EventTimestamps }

MessageBodies == CustomerMessageBodies \cup SelfSentMessageBodies

StatusBodies ==
  { [event |-> "session.status", shapeOk |-> TRUE, id |-> i, status |-> s]
      : i \in 1..(nextMsgId + 1), s \in Statuses }

\* Bodies the schema rejects: an event outside the union, and a message and
\* a status body with a required envelope field missing.
RejectedBodies ==
  { [event |-> "message.ack", shapeOk |-> TRUE],
    [event |-> "message", shapeOk |-> FALSE, id |-> 1,
     from |-> "6281234567890@c.us", fromMe |-> FALSE, notifyName |-> "",
     timestamp |-> 0],
    [event |-> "session.status", shapeOk |-> FALSE, id |-> 1,
     status |-> "read"] }

Bodies == MessageBodies \cup StatusBodies \cup RejectedBodies

NoBody == [event |-> "", shapeOk |-> FALSE]

\* ------------------------------------------------------------ transactions
NoTx ==
  [open |-> FALSE, now |-> 0, customerId |-> 0, sessionId |-> 0,
   insCustomers |-> {}, updCustomers |-> {},
   insSessions |-> {}, updSessions |-> {},
   insMessages |-> {}, cand |-> {}]

Ids(rows) == {r.id : r \in rows}

\* What a statement of task w sees under READ COMMITTED: everything
\* committed so far, with its own uncommitted writes on top.
VisCustomers(w) ==
  {r \in customers : r.id \notin Ids(tx[w].updCustomers)}
    \cup tx[w].updCustomers \cup tx[w].insCustomers

VisSessions(w) ==
  {r \in chat_sessions : r.id \notin Ids(tx[w].updSessions)}
    \cup tx[w].updSessions \cup tx[w].insSessions

\* Row locks: an uncommitted UPDATE of a committed row locks it until the
\* transaction ends.
CustomerLockedByOther(w, id) ==
  \E v \in Workers \ {w} : id \in Ids(tx[v].updCustomers)

SessionLockedByOther(w, id) ==
  \E v \in Workers \ {w} : id \in Ids(tx[v].updSessions)

SetMax(S) == IF S = {} THEN 0 ELSE CHOOSE m \in S : \A x \in S : x <= m

\* id SERIAL PRIMARY KEY: nextval() hands out an id that no row, committed or
\* not, carries. Ids are opaque, so the gaps left by rolled-back inserts are
\* not kept.
NextCustomerId ==
  1 + SetMax(Ids(customers) \cup UNION {Ids(tx[v].insCustomers) : v \in Workers})

NextSessionId ==
  1 + SetMax(Ids(chat_sessions) \cup UNION {Ids(tx[v].insSessions) : v \in Workers})

NextMessageRowId ==
  1 + SetMax(Ids(messages) \cup UNION {Ids(tx[v].insMessages) : v \in Workers})

\* Variant: the table without its UNIQUE constraint on phone_number.
PhoneTakenNoConstraint(phone) == FALSE

\* customers.phone_number UNIQUE: a committed row with the same key.
PhoneTaken(phone) == \E r \in customers : r.phone_number = phone

\* An uncommitted insert of the same key by another transaction: the
\* inserter has to wait for that transaction to end.
PhonePending(w, phone) ==
  \E v \in Workers \ {w} : \E r \in tx[v].insCustomers : r.phone_number = phone

\* Variant: the table without its UNIQUE constraint on waha_message_id.
MsgIdTakenNoConstraint(id) == FALSE

\* messages.waha_message_id UNIQUE
MsgIdTaken(id) == \E r \in messages : r.waha_message_id = id

MsgIdPending(w, id) ==
  \E v \in Workers \ {w} : \E r \in tx[v].insMessages : r.waha_message_id = id

\* ------------------------------------------------------------------- Init
\* No webhook is being handled.
WebhooksIdle ==
  /\ pc = [w \in Workers |-> "idle"]
  /\ req = [w \in Workers |-> NoBody]
  /\ resp = [w \in Workers |-> 0]
  /\ err = [w \in Workers |-> "none"]
  /\ tx = [w \in Workers |-> NoTx]

\* A segmentation task that is not in use.
NoTask ==
  [origin |-> "none", stage |-> "free", param |-> "", customerId |-> NULL,
   result |-> NULL, resp |-> 0, queried |-> FALSE, called |-> FALSE]

NoBatch == [state |-> "idle", ids |-> <<>>, next |-> 1, results |-> {}]

\* No segmentation is running.
SegmentationIdle ==
  /\ nseg = 0
  /\ segTasks = [t \in SegTasks |-> NoTask]
  /\ batch = NoBatch
  /\ batchLog = <<>>

\* parseSegmentationResponse has not been called.
ParserIdle ==
  /\ llmText = <<>>
  /\ llmResult = NULL

\* Neither getCustomersForSegmentation nor getSegmentationStats has been
\* called.
QueriesIdle ==
  /\ selLimit = 0
  /\ selected = NULL
  /\ segStats = NULL

NoHistory == [recentMessages |-> <<>>, first_message_at |-> 0, last_message_at |-> 0]

\* No digest has been built.
DigestIdle ==
  /\ history = NoHistory
  /\ digest = NULL
  /\ topicMessages = <<>>
  /\ commonTopics = NULL

\* A call slot of DatabaseService that is not in use.
NoOp ==
  [kind |-> "none", stage |-> "free", client |-> NULL, acquired |-> 0,
   released |-> 0, failedAt |-> "none", outcome |-> "none"]

\* DatabaseService has not been called and every client is in the pool.
PoolIdle ==
  /\ checkedOut = {}
  /\ dbOps = [o \in DbOps |-> NoOp]

Init ==
  /\ clock = 0
  /\ nreq = 0
  /\ nextMsgId = 0
  /\ customers = {}
  /\ chat_sessions = {}
  /\ messages = {}
  /\ WebhooksIdle
  /\ SegmentationIdle
  /\ ParserIdle
  /\ QueriesIdle
  /\ DigestIdle
  /\ PoolIdle

\* Time passes.
Tick ==
  /\ clock + TickStep <= MaxClock
  /\ clock' = clock + TickStep
  /\ UNCHANGED <<queryVars, digestVars, poolVars, segVars, parseVars, nreq, nextMsgId, customers, chat_sessions, messages,
                 pc, req, resp, err, tx>>

\* ------------------------------------------- WebhookController.handleWebhook
\* Validation and dispatch, up to the first awaited storage call. A delivery
\* is handled by a task of its own; tasks are interchangeable, so the free
\* task with the lowest number takes it.
ReceiveWebhook(w) ==
  /\ pc[w] = "idle"
  /\ \A v \in Workers : v < w => pc[v] # "idle"
  /\ nreq < MaxRequests
  /\ \E body \in Bodies :
       /\ req' = [req EXCEPT ![w] = body]
       /\ nextMsgId' = IF body.shapeOk /\ body.event = "message" /\ body.id > nextMsgId
                       THEN body.id ELSE nextMsgId
       /\ IF ~WahaWebhookSchema(body)
          THEN /\ resp' = [resp EXCEPT ![w] = StatusBadRequest]
               /\ pc' = pc
          ELSE IF body.event = "message"
          THEN IF FromMe(body)
               THEN /\ resp' = [resp EXCEPT ![w] = StatusOk]
                    /\ pc' = pc
               ELSE /\ resp' = [resp EXCEPT ![w] = 0]
                    /\ pc' = [pc EXCEPT ![w] = "begin"]
          ELSE IF body.event = "session.status"
          THEN /\ resp' = [resp EXCEPT ![w] = 0]
               /\ pc' = [pc EXCEPT ![w] = "statusUpdate"]
          ELSE /\ resp' = [resp EXCEPT ![w] = StatusOk]
               /\ pc' = pc
  /\ nreq' = nreq + 1
  /\ err' = [err EXCEPT ![w] = "none"]
  /\ UNCHANGED <<queryVars, digestVars, poolVars, segVars, parseVars, clock, customers, chat_sessions, messages, tx>>

\* ------------------------------------- WhatsAppService.handleMessageStatus
\* Variant: the UPDATE without its WHERE clause.
WithStatusEveryRow(rows, id, status) ==
  { [r EXCEPT !.status = Some(status)] : r \in rows }

\* UPDATE messages SET status = $1, updated_at = NOW() WHERE
\* waha_message_id = $2. The bookkeeping column updated_at is not a field of
\* the rows here.
WithStatus(rows, id, status) ==
  { IF r.waha_message_id = id THEN [r EXCEPT !.status = Some(status)] ELSE r
      : r \in rows }

\* Variant: a status for an unknown message is an error.
UpdateMessageStatusStrict(w) ==
  /\ pc[w] = "statusUpdate"
  /\ messages' = WithStatus(messages, req[w].id, req[w].status)
  /\ IF \E r \in messages : r.waha_message_id = req[w].id
     THEN resp' = [resp EXCEPT ![w] = StatusOk] /\ err' = err
     ELSE /\ resp' = [resp EXCEPT ![w] = StatusWebhookFailure]
          /\ err' = [err EXCEPT ![w] = "unknown_message"]
  /\ pc' = [pc EXCEPT ![w] = "idle"]
  /\ req' = [req EXCEPT ![w] = NoBody]
  /\ UNCHANGED <<queryVars, digestVars, poolVars, segVars, parseVars, clock, nreq, nextMsgId, customers,
                 chat_sessions, tx>>

\* The UPDATE runs on its own (autocommit); rowCount = 0 only logs a warning.
UpdateMessageStatus(w) ==
  /\ pc[w] = "statusUpdate"
  /\ messages' = WithStatus(messages, req[w].id, req[w].status)
  /\ resp' = [resp EXCEPT ![w] = StatusOk]
  /\ pc' = [pc EXCEPT ![w] = "idle"]
  /\ req' = [req EXCEPT ![w] = NoBody]
  /\ UNCHANGED <<queryVars, digestVars, poolVars, segVars, parseVars, clock, nreq, nextMsgId, customers, chat_sessions, err, tx>>

\* ----------------------------------- WhatsAppService.handleIncomingMessage
\* getClient, BEGIN, and the phone-number check that opens the callback.
Begin(w) ==
  /\ pc[w] = "begin"
  /\ tx' = [tx EXCEPT ![w] = [NoTx EXCEPT !.open = TRUE, !.now = clock]]
  /\ pc' = [pc EXCEPT ![w] =
              IF InvalidPhoneNumber(extractPhoneNumber(req[w].from))
              THEN "commit" ELSE "findCustomer"]
  /\ UNCHANGED <<queryVars, digestVars, poolVars, segVars, parseVars, clock, nreq, nextMsgId, customers, chat_sessions, messages,
                 req, resp, err>>

\* findOrCreateCustomer: SELECT * FROM customers WHERE phone_number = $1
FindCustomer(w) ==
  /\ pc[w] = "findCustomer"
  /\ LET phone == extractPhoneNumber(req[w].from)
         rows == {r \in VisCustomers(w) : r.phone_number = phone}
     IN IF rows # {}
        THEN /\ \E r \in rows : tx' = [tx EXCEPT ![w].customerId = r.id]
             /\ pc' = [pc EXCEPT ![w] = "findSession"]
        ELSE /\ tx' = tx
             /\ pc' = [pc EXCEPT ![w] = "insertCustomer"]
  /\ UNCHANGED <<queryVars, digestVars, poolVars, segVars, parseVars, clock, nreq, nextMsgId, customers, chat_sessions, messages,
                 req, resp, err>>

\* findOrCreateCustomer: INSERT INTO customers (...) VALUES ($1, $2, $3, $3, 1)
\* A committed row with the same phone number is a unique violation; an
\* uncommitted one makes the statement wait.
InsertCustomer(w) ==
  /\ pc[w] = "insertCustomer"
  /\ LET phone == extractPhoneNumber(req[w].from)
         id == NextCustomerId
         row == [id |-> id, phone_number |-> phone,
                 name |-> NameOrNull(req[w].notifyName),
                 first_message_at |-> req[w].timestamp,
                 last_message_at |-> req[w].timestamp,
                 total_messages |-> 1,
                 segment |-> NULL, segment_updated_at |-> NULL]
     IN /\ ~PhonePending(w, phone)
        /\ IF PhoneTaken(phone)
           THEN /\ err' = [err EXCEPT ![w] = "unique_phone"]
                /\ pc' = [pc EXCEPT ![w] = "rollback"]
                /\ tx' = tx
           ELSE /\ tx' = [tx EXCEPT ![w].insCustomers = @ \cup {row},
                                    ![w].customerId = id]
                /\ pc' = [pc EXCEPT ![w] = "findSession"]
                /\ err' = err
  /\ UNCHANGED <<queryVars, digestVars, poolVars, segVars, parseVars, clock, nreq, nextMsgId, customers, chat_sessions, messages,
                 req, resp>>

\* Variant: the SELECT without its 30-minute condition.
FreshSessionsNoWindow(rows, customerId, now) ==
  {r \in rows : r.customer_id = customerId /\ r.is_active}

\* findOrCreateChatSession, the SELECT: the customer's active sessions whose
\* session_start > NOW() - INTERVAL '30 minutes'.
FreshSessions(rows, customerId, now) ==
  {r \in rows : /\ r.customer_id = customerId
                /\ r.is_active
                /\ r.session_start > now - SessionWindow}

\* ORDER BY session_start DESC LIMIT 1
FindSession(w) ==
  /\ pc[w] = "findSession"
  /\ LET rows == FreshSessions(VisSessions(w), tx[w].customerId, tx[w].now)
     IN IF rows # {}
        THEN /\ \E r \in rows :
                  /\ \A q \in rows : q.session_start <= r.session_start
                  /\ tx' = [tx EXCEPT ![w].sessionId = r.id]
             /\ pc' = [pc EXCEPT ![w] = "saveMessage"]
        ELSE /\ tx' = tx
             /\ pc' = [pc EXCEPT ![w] = "closeSessions"]
  /\ UNCHANGED <<queryVars, digestVars, poolVars, segVars, parseVars, clock, nreq, nextMsgId, customers, chat_sessions, messages,
                 req, resp, err>>

\* SET is_active = false, session_end = NOW()
ClosedSession(r, now) ==
  [r EXCEPT !.is_active = FALSE, !.session_end = Some(now)]

\* The write set of t after an UPDATE of the chat_sessions rows ids; new[r] is
\* the row r as the SET clause leaves it.
WithSessionsUpdated(t, ids, new) ==
  [t EXCEPT
     !.insSessions = {IF r.id \in ids THEN new[r] ELSE r : r \in t.insSessions},
     !.updSessions =
        {IF r.id \in ids THEN new[r] ELSE r : r \in t.updSessions}
          \cup {new[r] : r \in {x \in chat_sessions :
                                  x.id \in ids /\ x.id \notin Ids(t.updSessions)}}]

\* The write set of t after an UPDATE of the customers rows ids; new[r] is
\* the row r as the SET clause leaves it.
WithCustomersUpdated(t, ids, new) ==
  [t EXCEPT
     !.insCustomers = {IF r.id \in ids THEN new[r] ELSE r : r \in t.insCustomers},
     !.updCustomers =
        {IF r.id \in ids THEN new[r] ELSE r : r \in t.updCustomers}
          \cup {new[r] : r \in {x \in customers :
                                  x.id \in ids /\ x.id \notin Ids(t.updCustomers)}}]

\* The rows of the statement's snapshot that
\* UPDATE chat_sessions ... WHERE customer_id = $1 AND is_active = true selects.
ActiveSessionIds(rows, customerId) ==
  {r.id : r \in {x \in rows : x.customer_id = customerId /\ x.is_active}}

\* findOrCreateChatSession, the UPDATE that closes the active sessions. When a
\* selected row is locked by another transaction the statement waits, keeping
\* the rows it selected.
CloseSessions(w) ==
  /\ pc[w] = "closeSessions"
  /\ LET ids == ActiveSessionIds(VisSessions(w), tx[w].customerId)
     IN IF \E id \in ids : SessionLockedByOther(w, id)
        THEN /\ tx' = [tx EXCEPT ![w].cand = ids]
             /\ pc' = [pc EXCEPT ![w] = "closeSessionsWait"]
        ELSE /\ tx' = [tx EXCEPT ![w] =
                         WithSessionsUpdated(tx[w], ids,
                           [r \in VisSessions(w) |-> ClosedSession(r, tx[w].now)])]
             /\ pc' = [pc EXCEPT ![w] = "insertSession"]
  /\ UNCHANGED <<queryVars, digestVars, poolVars, segVars, parseVars, clock, nreq, nextMsgId, customers, chat_sessions, messages,
                 req, resp, err>>

\* The waiting UPDATE resumes once the locks are gone: READ COMMITTED
\* re-evaluates the WHERE clause on the newest version of each row it had
\* selected, and does not look at rows committed after the statement began.
CloseSessionsWait(w) ==
  /\ pc[w] = "closeSessionsWait"
  /\ \A id \in tx[w].cand : ~SessionLockedByOther(w, id)
  /\ LET ids == tx[w].cand \cap ActiveSessionIds(VisSessions(w), tx[w].customerId)
     IN tx' = [tx EXCEPT ![w] =
                 [WithSessionsUpdated(tx[w], ids,
                    [r \in VisSessions(w) |-> ClosedSession(r, tx[w].now)])
                    EXCEPT !.cand = {}]]
  /\ pc' = [pc EXCEPT ![w] = "insertSession"]
  /\ UNCHANGED <<queryVars, digestVars, poolVars, segVars, parseVars, clock, nreq, nextMsgId, customers, chat_sessions, messages,
                 req, resp, err>>

\* findOrCreateChatSession: INSERT INTO chat_sessions (...) VALUES ($1, NOW(), 0, true)
InsertSession(w) ==
  /\ pc[w] = "insertSession"
  /\ LET id == NextSessionId
         row == [id |-> id, customer_id |-> tx[w].customerId,
                 session_start |-> tx[w].now, session_end |-> NULL,
                 message_count |-> 0, is_active |-> TRUE]
     IN tx' = [tx EXCEPT ![w].insSessions = @ \cup {row},
                         ![w].sessionId = id]
  /\ pc' = [pc EXCEPT ![w] = "saveMessage"]
  /\ UNCHANGED <<queryVars, digestVars, poolVars, segVars, parseVars, clock, nreq, nextMsgId, customers, chat_sessions, messages,
                 req, resp, err>>

\* saveMessage: INSERT INTO messages (...). waha_message_id is UNIQUE.
SaveMessage(w) ==
  /\ pc[w] = "saveMessage"
  /\ LET row == [id |-> NextMessageRowId,
                 customer_id |-> tx[w].customerId,
                 session_id |-> tx[w].sessionId,
                 waha_message_id |-> req[w].id,
                 chat_id |-> req[w].from,
                 from_number |-> extractPhoneNumber(req[w].from),
                 timestamp |-> req[w].timestamp,
                 is_from_me |-> req[w].fromMe,
                 status |-> NULL,
                 created_at |-> tx[w].now]
     IN /\ ~MsgIdPending(w, req[w].id)
        /\ IF MsgIdTaken(req[w].id)
           THEN /\ err' = [err EXCEPT ![w] = "unique_message_id"]
                /\ pc' = [pc EXCEPT ![w] = "rollback"]
                /\ tx' = tx
           ELSE /\ tx' = [tx EXCEPT ![w].insMessages = @ \cup {row}]
                /\ pc' = [pc EXCEPT ![w] = "updateCustomerStats"]
                /\ err' = err
  /\ UNCHANGED <<queryVars, digestVars, poolVars, segVars, parseVars, clock, nreq, nextMsgId, customers, chat_sessions, messages,
                 req, resp>>

\* Variant: the UPDATE clears the name as well.
CountedCustomerUnnamed(r, now) ==
  [r EXCEPT !.total_messages = @ + 1, !.last_message_at = now, !.name = NULL]

\* SET total_messages = total_messages + 1, last_message_at = NOW()
CountedCustomer(r, now) ==
  [r EXCEPT !.total_messages = @ + 1, !.last_message_at = now]

\* updateCustomerStats: UPDATE customers ... WHERE id = $1
UpdateCustomerStats(w) ==
  /\ pc[w] = "updateCustomerStats"
  /\ ~CustomerLockedByOther(w, tx[w].customerId)
  /\ tx' = [tx EXCEPT ![w] =
              WithCustomersUpdated(tx[w], {tx[w].customerId},
                [r \in VisCustomers(w) |-> CountedCustomer(r, tx[w].now)])]
  /\ pc' = [pc EXCEPT ![w] = "updateSessionStats"]
  /\ UNCHANGED <<queryVars, digestVars, poolVars, segVars, parseVars, clock, nreq, nextMsgId, customers, chat_sessions, messages,
                 req, resp, err>>

\* Variant: the UPDATE leaves the count as it is.
CountedSessionSame(r) == r

\* SET message_count = message_count + 1
CountedSession(r) == [r EXCEPT !.message_count = @ + 1]

\* updateSessionStats: UPDATE chat_sessions ... WHERE id = $1
UpdateSessionStats(w) ==
  /\ pc[w] = "updateSessionStats"
  /\ ~SessionLockedByOther(w, tx[w].sessionId)
  /\ tx' = [tx EXCEPT ![w] =
              WithSessionsUpdated(tx[w], {tx[w].sessionId},
                [r \in VisSessions(w) |-> CountedSession(r)])]
  /\ pc' = [pc EXCEPT ![w] = "commit"]
  /\ UNCHANGED <<queryVars, digestVars, poolVars, segVars, parseVars, clock, nreq, nextMsgId, customers, chat_sessions, messages,
                 req, resp, err>>

\* ------------------------------------------- DatabaseService.transaction
\* A table after the writes of t are made durable.
Merged(table, ins, upd) ==
  {r \in table : r.id \notin Ids(upd)} \cup upd \cup ins

\* COMMIT, then the handler answers 200.
Commit(w) ==
  /\ pc[w] = "commit"
  /\ customers' = Merged(customers, tx[w].insCustomers, tx[w].updCustomers)
  /\ chat_sessions' = Merged(chat_sessions, tx[w].insSessions, tx[w].updSessions)
  /\ messages' = messages \cup tx[w].insMessages
  /\ tx' = [tx EXCEPT ![w] = NoTx]
  /\ resp' = [resp EXCEPT ![w] = StatusOk]
  /\ pc' = [pc EXCEPT ![w] = "idle"]
  /\ req' = [req EXCEPT ![w] = NoBody]
  /\ UNCHANGED <<queryVars, digestVars, poolVars, segVars, parseVars, clock, nreq, nextMsgId, err>>

\* Variant: the catch block without ROLLBACK, the client's pending writes
\* becoming durable when it is released.
RollbackKeepsWrites(w) ==
  /\ pc[w] = "rollback"
  /\ customers' = Merged(customers, tx[w].insCustomers, tx[w].updCustomers)
  /\ chat_sessions' = Merged(chat_sessions, tx[w].insSessions, tx[w].updSessions)
  /\ messages' = messages \cup tx[w].insMessages
  /\ tx' = [tx EXCEPT ![w] = NoTx]
  /\ resp' = [resp EXCEPT ![w] = StatusWebhookFailure]
  /\ pc' = [pc EXCEPT ![w] = "idle"]
  /\ req' = [req EXCEPT ![w] = NoBody]
  /\ UNCHANGED <<queryVars, digestVars, poolVars, segVars, parseVars, clock, nreq, nextMsgId, err>>

\* catch: ROLLBACK, rethrow; handleWebhook's catch answers the request.
Rollback(w) ==
  /\ pc[w] = "rollback"
  /\ tx' = [tx EXCEPT ![w] = NoTx]
  /\ resp' = [resp EXCEPT ![w] = StatusWebhookFailure]
  /\ pc' = [pc EXCEPT ![w] = "idle"]
  /\ req' = [req EXCEPT ![w] = NoBody]
  /\ UNCHANGED <<queryVars, digestVars, poolVars, segVars, parseVars, clock, nreq, nextMsgId, customers, chat_sessions, messages, err>>

StatementPcs ==
  {"begin", "findCustomer", "insertCustomer", "findSession", "closeSessions",
   "closeSessionsWait", "insertSession", "saveMessage", "updateCustomerStats",
   "updateSessionStats", "commit"}

\* Variant: a statement that waits for a row lock never rejects, as if the
\* database had neither deadlock detection nor a lock timeout.
StorageFailureUnlessWaiting(w) ==
  /\ pc[w] \in StatementPcs \cup {"statusUpdate"}
  /\ ~(pc[w] = "updateCustomerStats" /\ CustomerLockedByOther(w, tx[w].customerId))
  /\ ~(pc[w] = "updateSessionStats" /\ SessionLockedByOther(w, tx[w].sessionId))
  /\ ~(pc[w] = "closeSessionsWait"
         /\ \E id \in tx[w].cand : SessionLockedByOther(w, id))
  /\ err' = [err EXCEPT ![w] = "storage"]
  /\ IF pc[w] = "statusUpdate"
     THEN /\ resp' = [resp EXCEPT ![w] = StatusWebhookFailure]
          /\ pc' = [pc EXCEPT ![w] = "idle"]
          /\ req' = [req EXCEPT ![w] = NoBody]
     ELSE /\ resp' = resp
          /\ pc' = [pc EXCEPT ![w] = "rollback"]
          /\ req' = req
  /\ UNCHANGED <<queryVars, digestVars, poolVars, segVars, parseVars, clock, nreq, nextMsgId, customers, chat_sessions, messages, tx>>

\* Any awaited storage call may reject (connection lost, timeout, deadlock
\* victim, ...): the statement has no effect and the callback throws.
StorageFailure(w) ==
  /\ pc[w] \in StatementPcs \cup {"statusUpdate"}
  /\ err' = [err EXCEPT ![w] = "storage"]
  /\ IF pc[w] = "statusUpdate"
     THEN /\ resp' = [resp EXCEPT ![w] = StatusWebhookFailure]
          /\ pc' = [pc EXCEPT ![w] = "idle"]
          /\ req' = [req EXCEPT ![w] = NoBody]
     ELSE /\ resp' = resp
          /\ pc' = [pc EXCEPT ![w] = "rollback"]
          /\ req' = req
  /\ UNCHANGED <<queryVars, digestVars, poolVars, segVars, parseVars, clock, nreq, nextMsgId, customers, chat_sessions, messages, tx>>

\* ============================================================ segmentation
ingestVars == <<clock, nreq, nextMsgId, chat_sessions, messages,
                pc, req, resp, err, tx>>

\* ---------------------------------------- LLMService.parseSegmentationResponse
\* A classifier answer is a sequence of chunks: prose without braces, a
\* well-formed JSON object, or a brace on its own.
ValidSegments ==
  {"VIP_CUSTOMER", "REGULAR_CUSTOMER", "POTENTIAL_CUSTOMER", "SUPPORT_SEEKER",
   "PRICE_SENSITIVE", "INACTIVE_CUSTOMER", "NEW_CUSTOMER"}

\* The object {}: every property is undefined.
EmptyObject ==
  [segment |-> "", confidence |-> [type |-> "undefined", value |-> 0],
   reasoning |-> "", characteristics |-> [array |-> FALSE, items |-> <<>>]]

\* parsed.segment: a known label, an unknown one, or none.
SegmentValues == {"VIP_CUSTOMER", "GOLD_CUSTOMER", ""}

\* parsed.confidence, in hundredths when it is a number: 1, just above 1,
\* just below 0, and a string.
ConfidenceValues ==
  { [type |-> "number", value |-> ConfidenceOne],
    [type |-> "number", value |-> ConfidenceOne + 1],
    [type |-> "number", value |-> 0 - 1],
    [type |-> "string", value |-> 0] }

\* parsed.reasoning and parsed.characteristics: given, or left out.
DetailValues ==
  { [reasoning |-> "loyal", characteristics |-> [array |-> TRUE, items |-> <<"loyal">>]],
    [reasoning |-> "", characteristics |-> [array |-> FALSE, items |-> <<>>]] }

JsonObjects ==
  { [segment |-> s, confidence |-> c, reasoning |-> d.reasoning,
     characteristics |-> d.characteristics]
      : s \in SegmentValues, c \in ConfidenceValues, d \in DetailValues }

TextChunk == [kind |-> "text", obj |-> EmptyObject]

OpenBrace == [kind |-> "{", obj |-> EmptyObject]

CloseBrace == [kind |-> "}", obj |-> EmptyObject]

ObjectChunk(o) == [kind |-> "object", obj |-> o]

Chunks == {TextChunk, OpenBrace, CloseBrace} \cup {ObjectChunk(o) : o \in JsonObjects}

Responses == UNION { [1..n -> Chunks] : n \in 0..MaxChunks }

\* response.match(/\{[\s\S]*\}/): the greedy match runs from the first "{"
\* of the text to its last "}".
JsonMatch(response) ==
  LET opens == {i \in 1..Len(response) : response[i].kind \in {"object", "{"}}
      closes == {i \in 1..Len(response) : response[i].kind \in {"object", "}"}}
  IN IF opens = {} \/ closes = {}
     THEN NULL
     ELSE LET first == CHOOSE i \in opens : \A j \in opens : i <= j
              last == CHOOSE i \in closes : \A j \in closes : j <= i
          IN IF first > last \/ (first = last /\ response[first].kind # "object")
             THEN NULL
             ELSE Some(SubSeq(response, first, last))

\* JSON.parse of the matched text: one object chunk is that object, "{"
\* followed by "}" is the empty object, anything else is a SyntaxError.
JsonParse(match) ==
  IF Len(match) = 1 /\ match[1].kind = "object" THEN Some(match[1].obj)
  ELSE IF match = <<OpenBrace, CloseBrace>> THEN Some(EmptyObject)
  ELSE NULL

\* Variant: any label is accepted.
InvalidSegmentNever(segment) == FALSE

\* !validSegments.includes(parsed.segment)
InvalidSegment(segment) == segment \notin ValidSegments

\* Variant: any number is accepted as a confidence.
InvalidConfidenceTypeOnly(confidence) == confidence.type # "number"

\* typeof parsed.confidence !== 'number' || parsed.confidence < 0 || parsed.confidence > 1
InvalidConfidence(confidence) ==
  \/ confidence.type # "number"
  \/ confidence.value < 0
  \/ confidence.value > ConfidenceOne

FallbackResult ==
  [segment |-> "REGULAR_CUSTOMER", confidence |-> FallbackConfidence,
   reasoning |-> "Failed to parse LLM response, assigned default segment",
   characteristics |-> <<"parsing_error">>]

parseSegmentationResponse(response) ==
  LET jsonMatch == JsonMatch(response) IN
  IF jsonMatch = NULL THEN FallbackResult
  ELSE LET json == JsonParse(jsonMatch[1]) IN
  IF json = NULL THEN FallbackResult
  ELSE LET parsed == json[1] IN
  IF InvalidSegment(parsed.segment) THEN FallbackResult
  ELSE IF InvalidConfidence(parsed.confidence) THEN FallbackResult
  ELSE [segment |-> parsed.segment,
        confidence |-> parsed.confidence.value,
        reasoning |-> IF parsed.reasoning = "" THEN "No reasoning provided"
                      ELSE parsed.reasoning,
        characteristics |-> IF parsed.characteristics.array
                            THEN parsed.characteristics.items ELSE <<>>]

\* The parser applied to one classifier answer.
ParseResponse ==
  /\ llmResult = NULL
  /\ llmResult' = Some(parseSegmentationResponse(llmText))
  /\ UNCHANGED <<queryVars, digestVars, poolVars, llmText, segVars, customers, ingestVars>>

\* ------------------------------------------------- :customerId of the route
ParamStrings == {"1", "2", "abc"}

DigitChars == "0123456789"

IsDigits(s) ==
  \A i \in 1..Len(s) :
    \E d \in 1..Len(DigitChars) : SubSeq(s, i, i) = SubSeq(DigitChars, d, d)

DigitValue(c) ==
  (CHOOSE d \in 1..Len(DigitChars) : SubSeq(DigitChars, d, d) = c) - 1

RECURSIVE DecimalValue(_)
DecimalValue(s) ==
  IF s = "" THEN 0
  ELSE 10 * DecimalValue(SubSeq(s, 1, Len(s) - 1))
         + DigitValue(SubSeq(s, Len(s), Len(s)))

\* Number(s) for strings of decimal digits and for strings with another
\* character: NULL stands for NaN.
Number(s) == IF IsDigits(s) THEN Some(DecimalValue(s)) ELSE NULL

\* z.object({customerId: z.string().transform(Number)}).parse(req.params): a
\* route parameter is a string, so the string check passes and the transform
\* is applied to it.
customerIdSchema(param) == [success |-> TRUE, customerId |-> Number(param)]

\* -------------------------------------------- LLMService.segmentCustomer
\* Customer ids handed to batchSegmentCustomers.
CustomerIds == {1, 2}

BatchLists == UNION { [1..n -> CustomerIds] : n \in 0..MaxBatch }

\* What the classifier may answer in a run: nothing, or any single chunk.
ClassifierTexts == {<<>>} \cup {<<c>> : c \in Chunks}

TaskFree(t) == segTasks[t].stage \in {"free", "answered"}

BatchTasks == {t \in SegTasks : segTasks[t].origin = "batch" /\ ~TaskFree(t)}

Logged(ev, id) == Append(batchLog, [ev |-> ev, id |-> id])

\* Variant: the loop has no try/catch, the first failure ends the run.
AfterFailureAbort(b) == [b EXCEPT !.state = "raised"]

\* catch (error) { logError(...) }: the loop goes on with the next id.
AfterFailure(b) == b

\* Variant: the controller's catch answers 200.
FailedAnswersOk(t, task) ==
  IF task.origin = "http"
  THEN /\ segTasks' = [segTasks EXCEPT ![t] =
                         [task EXCEPT !.stage = "answered", !.resp = StatusOk]]
       /\ UNCHANGED <<batch, batchLog>>
  ELSE /\ segTasks' = [segTasks EXCEPT ![t] = NoTask]
       /\ batchLog' = Logged("failed", task.customerId[1])
       /\ batch' = AfterFailure(batch)

\* segmentCustomer rejects. The controller answers 500; the batch loop logs
\* the failure and goes on.
Failed(t, task) ==
  IF task.origin = "http"
  THEN /\ segTasks' = [segTasks EXCEPT ![t] =
                         [task EXCEPT !.stage = "answered",
                                      !.resp = StatusInternalError]]
       /\ UNCHANGED <<queryVars, digestVars, poolVars, batch, batchLog>>
  ELSE /\ segTasks' = [segTasks EXCEPT ![t] = NoTask]
       /\ batchLog' = Logged("failed", task.customerId[1])
       /\ batch' = AfterFailure(batch)

\* segmentCustomer returns. The controller answers 200; the batch loop
\* stores the result under the id and starts its timer.
Succeeded(t, task) ==
  IF task.origin = "http"
  THEN /\ segTasks' = [segTasks EXCEPT ![t] =
                         [task EXCEPT !.stage = "answered", !.resp = StatusOk]]
       /\ UNCHANGED <<queryVars, digestVars, poolVars, batch, batchLog>>
  ELSE /\ segTasks' = [segTasks EXCEPT ![t] = NoTask]
       /\ batchLog' = Logged("completed", task.customerId[1])
       /\ batch' = [batch EXCEPT
                      !.results = {p \in @ : p[1] # task.customerId[1]}
                                    \cup {<<task.customerId[1], task.result[1]>>},
                      !.state = "delay"]

\* WebhookController.segmentCustomer up to the first awaited query.
SegmentCustomerRequest(t) ==
  /\ nseg < MaxSegRequests
  /\ TaskFree(t)
  /\ \A u \in SegTasks : u < t => ~TaskFree(u)
  /\ \E param \in ParamStrings :
       LET parsed == customerIdSchema(param) IN
       segTasks' = [segTasks EXCEPT ![t] =
         IF ~parsed.success
         THEN [NoTask EXCEPT !.origin = "http", !.param = param,
                             !.stage = "answered", !.resp = StatusBadRequest]
         ELSE [NoTask EXCEPT !.origin = "http", !.param = param,
                             !.customerId = parsed.customerId,
                             !.stage = "customerQuery"]]
  /\ nseg' = nseg + 1
  /\ UNCHANGED <<queryVars, digestVars, poolVars, batch, batchLog, parseVars, customers, ingestVars>>

\* Variant: an empty result is not looked at.
CustomerQueryNoCheck(t) ==
  /\ segTasks[t].stage = "customerQuery"
  /\ LET task == [segTasks[t] EXCEPT !.queried = TRUE]
     IN IF task.customerId = NULL
        THEN Failed(t, task)
        ELSE /\ segTasks' = [segTasks EXCEPT ![t] =
                               [task EXCEPT !.stage = "messagesQuery"]]
             /\ UNCHANGED <<batch, batchLog>>
  /\ UNCHANGED <<queryVars, digestVars, poolVars, nseg, parseVars, customers, ingestVars>>

\* getCustomerConversationHistory: SELECT * FROM customers WHERE id = $1.
\* NaN is no integer for the database, and no row is "not found".
CustomerQuery(t) ==
  /\ segTasks[t].stage = "customerQuery"
  /\ LET task == [segTasks[t] EXCEPT !.queried = TRUE]
         id == task.customerId
     IN IF id = NULL \/ ~(\E c \in customers : c.id = id[1])
        THEN Failed(t, task)
        ELSE /\ segTasks' = [segTasks EXCEPT ![t] =
                               [task EXCEPT !.stage = "messagesQuery"]]
             /\ UNCHANGED <<queryVars, digestVars, poolVars, batch, batchLog>>
  /\ UNCHANGED <<queryVars, digestVars, poolVars, nseg, parseVars, customers, ingestVars>>

\* getCustomerConversationHistory: SELECT ... FROM messages ... LIMIT 100
MessagesQuery(t) ==
  /\ segTasks[t].stage = "messagesQuery"
  /\ segTasks' = [segTasks EXCEPT ![t].stage = "sessionStatsQuery"]
  /\ UNCHANGED <<queryVars, digestVars, poolVars, nseg, batch, batchLog, parseVars, customers, ingestVars>>

\* getCustomerConversationHistory: SELECT COUNT(*), AVG(...) FROM
\* chat_sessions; the digest and the prompt are built and the classifier is
\* called.
SessionStatsQuery(t) ==
  /\ segTasks[t].stage = "sessionStatsQuery"
  /\ segTasks' = [segTasks EXCEPT ![t].stage = "callApi", ![t].called = TRUE]
  /\ batchLog' = IF segTasks[t].origin = "batch"
                 THEN Logged("call", segTasks[t].customerId[1])
                 ELSE batchLog
  /\ UNCHANGED <<queryVars, digestVars, poolVars, nseg, batch, parseVars, customers, ingestVars>>

\* callAnthropicAPI returns a text; it is parsed and the UPDATE is issued.
ApiReturn(t) ==
  /\ segTasks[t].stage = "callApi"
  /\ \E text \in ClassifierTexts :
       segTasks' = [segTasks EXCEPT
                      ![t].stage = "updateSegment",
                      ![t].result = Some(parseSegmentationResponse(text))]
  /\ UNCHANGED <<queryVars, digestVars, poolVars, nseg, batch, batchLog, parseVars, customers, ingestVars>>

\* callAnthropicAPI throws: HTTP error, timeout, or an answer without content.
ApiFailure(t) ==
  /\ segTasks[t].stage = "callApi"
  /\ Failed(t, segTasks[t])
  /\ UNCHANGED <<queryVars, digestVars, poolVars, nseg, parseVars, customers, ingestVars>>

\* Variant: the UPDATE with AND segment IS NULL, a label is written once.
WithSegmentOnce(rows, id, segment, now) ==
  { IF r.id = id /\ r.segment = NULL
    THEN [r EXCEPT !.segment = Some(segment), !.segment_updated_at = Some(now)]
    ELSE r : r \in rows }

\* UPDATE customers SET segment = $1, segment_updated_at = NOW() WHERE id = $2
WithSegment(rows, id, segment, now) ==
  { IF r.id = id
    THEN [r EXCEPT !.segment = Some(segment), !.segment_updated_at = Some(now)]
    ELSE r : r \in rows }

\* A transaction has updated the row and has not ended yet.
CustomerLocked(id) == \E w \in Workers : id \in Ids(tx[w].updCustomers)

\* Variant: the UPDATE does not wait for the lock on the row.
UpdateSegmentNoLock(t) ==
  /\ segTasks[t].stage = "updateSegment"
  /\ customers' = WithSegment(customers, segTasks[t].customerId[1],
                              segTasks[t].result[1].segment, clock)
  /\ Succeeded(t, segTasks[t])
  /\ UNCHANGED <<queryVars, digestVars, poolVars, nseg, parseVars, ingestVars>>

\* updateCustomerSegment: the UPDATE runs on its own (autocommit) and waits
\* while an open transaction holds the lock on the row.
UpdateSegment(t) ==
  /\ segTasks[t].stage = "updateSegment"
  /\ ~CustomerLocked(segTasks[t].customerId[1])
  /\ customers' = WithSegment(customers, segTasks[t].customerId[1],
                              segTasks[t].result[1].segment, clock)
  /\ Succeeded(t, segTasks[t])
  /\ UNCHANGED <<queryVars, digestVars, poolVars, nseg, parseVars, ingestVars>>

SegStatementStages ==
  {"customerQuery", "messagesQuery", "sessionStatsQuery", "updateSegment"}

\* An awaited query of a segmentation rejects.
SegStorageFailure(t) ==
  /\ segTasks[t].stage \in SegStatementStages
  /\ Failed(t, [segTasks[t] EXCEPT !.queried = TRUE])
  /\ UNCHANGED <<queryVars, digestVars, poolVars, nseg, parseVars, customers, ingestVars>>

\* ---------------------------------------- LLMService.batchSegmentCustomers
StartBatch ==
  /\ batch.state = "idle"
  /\ \E ids \in BatchLists :
       batch' = [NoBatch EXCEPT !.state = "running", !.ids = ids]
  /\ UNCHANGED <<queryVars, digestVars, poolVars, nseg, segTasks, batchLog, parseVars, customers, ingestVars>>

\* Variant: the loop does not await the segmentation it has started.
BatchNextNoAwait ==
  /\ batch.state \in {"running", "delay"}
  /\ batch.next <= Len(batch.ids)
  /\ \E t \in SegTasks :
       /\ TaskFree(t)
       /\ \A u \in SegTasks : u < t => ~TaskFree(u)
       /\ segTasks' = [segTasks EXCEPT ![t] =
            [NoTask EXCEPT !.origin = "batch", !.stage = "customerQuery",
                           !.customerId = Some(batch.ids[batch.next])]]
  /\ batch' = [batch EXCEPT !.next = @ + 1]
  /\ batchLog' = Logged("started", batch.ids[batch.next])
  /\ UNCHANGED <<queryVars, digestVars, poolVars, nseg, parseVars, customers, ingestVars>>

\* for (const customerId of customerIds) { await this.segmentCustomer(...) }:
\* the next id is taken once the previous iteration is over.
BatchNext ==
  /\ batch.state = "running"
  /\ BatchTasks = {}
  /\ batch.next <= Len(batch.ids)
  /\ \E t \in SegTasks :
       /\ TaskFree(t)
       /\ \A u \in SegTasks : u < t => ~TaskFree(u)
       /\ segTasks' = [segTasks EXCEPT ![t] =
            [NoTask EXCEPT !.origin = "batch", !.stage = "customerQuery",
                           !.customerId = Some(batch.ids[batch.next])]]
  /\ batch' = [batch EXCEPT !.next = @ + 1]
  /\ batchLog' = Logged("started", batch.ids[batch.next])
  /\ UNCHANGED <<queryVars, digestVars, poolVars, nseg, parseVars, customers, ingestVars>>

\* await new Promise(resolve => setTimeout(resolve, 1000)) is over.
DelayElapsed ==
  /\ batch.state = "delay"
  /\ batch' = [batch EXCEPT !.state = "running"]
  /\ batchLog' = Logged("delay", 0)
  /\ UNCHANGED <<queryVars, digestVars, poolVars, nseg, segTasks, parseVars, customers, ingestVars>>

\* The list is exhausted: return results.
BatchReturn ==
  /\ batch.state = "running"
  /\ BatchTasks = {}
  /\ batch.next > Len(batch.ids)
  /\ batch' = [batch EXCEPT !.state = "done"]
  /\ UNCHANGED <<queryVars, digestVars, poolVars, nseg, segTasks, batchLog, parseVars, customers, ingestVars>>

\* ------------------------------------------------------- specifications
Next ==
  \/ Tick
  \/ \E w \in Workers : ReceiveWebhook(w)
  \/ \E w \in Workers : UpdateMessageStatus(w)
  \/ \E w \in Workers : Begin(w)
  \/ \E w \in Workers : FindCustomer(w)
  \/ \E w \in Workers : InsertCustomer(w)
  \/ \E w \in Workers : FindSession(w)
  \/ \E w \in Workers : CloseSessions(w)
  \/ \E w \in Workers : CloseSessionsWait(w)
  \/ \E w \in Workers : InsertSession(w)
  \/ \E w \in Workers : SaveMessage(w)
  \/ \E w \in Workers : UpdateCustomerStats(w)
  \/ \E w \in Workers : UpdateSessionStats(w)
  \/ \E w \in Workers : Commit(w)
  \/ \E w \in Workers : Rollback(w)
  \/ \E w \in Workers : StorageFailure(w)

Spec == Init /\ [][Next]_vars

\* What the handler of a delivery does once the delivery is received: every
\* awaited storage call returns (the continuation runs) or rejects.
WebhookProgress(w) ==
  \/ UpdateMessageStatus(w)
  \/ Begin(w)
  \/ FindCustomer(w)
  \/ InsertCustomer(w)
  \/ FindSession(w)
  \/ CloseSessions(w)
  \/ CloseSessionsWait(w)
  \/ InsertSession(w)
  \/ SaveMessage(w)
  \/ UpdateCustomerStats(w)
  \/ UpdateSessionStats(w)
  \/ Commit(w)
  \/ Rollback(w)
  \/ StorageFailure(w)


\* One delivery at a time: the next webhook arrives after the previous one
\* has been answered.
SeqNext ==
  \/ Tick
  \/ ReceiveWebhook(Solo)
  \/ UpdateMessageStatus(Solo)
  \/ Begin(Solo)
  \/ FindCustomer(Solo)
  \/ InsertCustomer(Solo)
  \/ FindSession(Solo)
  \/ CloseSessions(Solo)
  \/ InsertSession(Solo)
  \/ SaveMessage(Solo)
  \/ UpdateCustomerStats(Solo)
  \/ UpdateSessionStats(Solo)
  \/ Commit(Solo)
  \/ Rollback(Solo)
  \/ StorageFailure(Solo)

SeqSpec == Init /\ [][SeqNext]_vars

\* The stored rows after the first message of one customer has been ingested.
CustomersAfterFirstMessage ==
  { [id |-> 1, phone_number |-> "6281234567890", name |-> NULL,
     first_message_at |-> 0, last_message_at |-> 0, total_messages |-> 2,
     segment |-> NULL, segment_updated_at |-> NULL] }

SessionsAfterFirstMessage ==
  { [id |-> 1, customer_id |-> 1, session_start |-> 0, session_end |-> NULL,
     message_count |-> 1, is_active |-> TRUE] }

MessagesAfterFirstMessage ==
  { [id |-> 1, customer_id |-> 1, session_id |-> 1, waha_message_id |-> 1,
     chat_id |-> "6281234567890@c.us", from_number |-> "6281234567890",
     timestamp |-> 0, is_from_me |-> FALSE, status |-> NULL, created_at |-> 0] }

\* Segmentation runs on a store that holds one customer; no webhook arrives
\* meanwhile.
SegInit ==
  /\ clock = 0
  /\ nreq = 1
  /\ nextMsgId = 1
  /\ customers = CustomersAfterFirstMessage
  /\ chat_sessions = SessionsAfterFirstMessage
  /\ messages = MessagesAfterFirstMessage
  /\ WebhooksIdle
  /\ SegmentationIdle
  /\ ParserIdle
  /\ QueriesIdle
  /\ DigestIdle
  /\ PoolIdle

\* A first delivery has been answered: it stored nothing, or it stored the
\* first message of a customer.
AnswerInit ==
  /\ clock = 0
  /\ nreq = 1
  /\ \/ /\ nextMsgId = 0
        /\ customers = {}
        /\ chat_sessions = {}
        /\ messages = {}
     \/ /\ nextMsgId = 1
        /\ customers = CustomersAfterFirstMessage
        /\ chat_sessions = SessionsAfterFirstMessage
        /\ messages = MessagesAfterFirstMessage
  /\ WebhooksIdle
  /\ SegmentationIdle
  /\ ParserIdle
  /\ QueriesIdle
  /\ DigestIdle
  /\ PoolIdle

\* The overlapping deliveries that follow, with storage calls that all end:
\* no handler is left suspended for ever at an await.
FairSpec ==
  AnswerInit /\ [][Next]_vars /\ \A w \in Workers : WF_vars(WebhookProgress(w))

\* What a segmentation does once it is started.
SegProgress ==
  \/ \E t \in SegTasks : CustomerQuery(t)
  \/ \E t \in SegTasks : MessagesQuery(t)
  \/ \E t \in SegTasks : SessionStatsQuery(t)
  \/ \E t \in SegTasks : ApiReturn(t)
  \/ \E t \in SegTasks : ApiFailure(t)
  \/ \E t \in SegTasks : UpdateSegment(t)
  \/ \E t \in SegTasks : SegStorageFailure(t)
  \/ BatchNext
  \/ DelayElapsed
  \/ BatchReturn

SegNext ==
  \/ \E t \in SegTasks : SegmentCustomerRequest(t)
  \/ StartBatch
  \/ SegProgress

SegSpec == SegInit /\ [][SegNext]_vars

\* Segmentation while time passes: labels are written at different times.
RelabelNext == Tick \/ SegNext

RelabelSpec == SegInit /\ [][RelabelNext]_vars

\* Every awaited query and classifier call resolves or rejects (the HTTP
\* client has a timeout), the timer fires, and the event loop runs every
\* continuation that is ready.
SegFairSpec == SegSpec /\ WF_vars(SegProgress)

\* Deliveries are ingested one at a time while customers are segmented on
\* demand: the label write meets an ingestion transaction of the same
\* customer. Time stands still meanwhile.
MixNext ==
  \/ ReceiveWebhook(Solo)
  \/ UpdateMessageStatus(Solo)
  \/ Begin(Solo)
  \/ FindCustomer(Solo)
  \/ InsertCustomer(Solo)
  \/ FindSession(Solo)
  \/ CloseSessions(Solo)
  \/ InsertSession(Solo)
  \/ SaveMessage(Solo)
  \/ UpdateCustomerStats(Solo)
  \/ UpdateSessionStats(Solo)
  \/ Commit(Solo)
  \/ Rollback(Solo)
  \/ StorageFailure(Solo)
  \/ \E t \in SegTasks : SegmentCustomerRequest(t)
  \/ \E t \in SegTasks : CustomerQuery(t)
  \/ \E t \in SegTasks : MessagesQuery(t)
  \/ \E t \in SegTasks : SessionStatsQuery(t)
  \/ \E t \in SegTasks : ApiReturn(t)
  \/ \E t \in SegTasks : ApiFailure(t)
  \/ \E t \in SegTasks : UpdateSegment(t)
  \/ \E t \in SegTasks : SegStorageFailure(t)

MixSpec == Init /\ [][MixNext]_vars

\* parseSegmentationResponse applied to every classifier answer of the set.
ParseInit ==
  /\ clock = 0
  /\ nreq = 0
  /\ nextMsgId = 0
  /\ customers = {}
  /\ chat_sessions = {}
  /\ messages = {}
  /\ WebhooksIdle
  /\ SegmentationIdle
  /\ llmText \in Responses
  /\ llmResult = NULL
  /\ QueriesIdle
  /\ DigestIdle
  /\ PoolIdle

ParseNext == ParseResponse

ParseSpec == ParseInit /\ [][ParseNext]_vars

\* ================================================= queries over customers
\* phone_number is UNIQUE: the number of the row with a given id.
SamplePhones ==
  <<"6281234567890", "6281234567891", "6281234567892",
    "6281234567893", "6281234567894", "6281234567895">>

\* A row of customers as ingestion and segmentation leave it: the label and
\* its time are set together.
CustomerRow(id, total, last, segment, labelledAt) ==
  [id |-> id, phone_number |-> SamplePhones[id], name |-> NULL,
   first_message_at |-> 0, last_message_at |-> last, total_messages |-> total,
   segment |-> IF segment = "" THEN NULL ELSE Some(segment),
   segment_updated_at |-> IF segment = "" THEN NULL ELSE Some(labelledAt)]

\* Tables with the ids 1..n whose rows are drawn from shapes.
TablesOf(shapes, maxRows) ==
  UNION { { { CustomerRow(i, f[i].total, f[i].last, f[i].segment, 0) : i \in 1..n }
            : f \in [1..n -> shapes] }
          : n \in 0..maxRows }

SegmentMaxAge == SegmentMaxAgeDays * SecondsPerDay

\* ------------------------------ WhatsAppService.getCustomersForSegmentation
\* Rows below and at the message threshold, with different last_message_at,
\* without a label or labelled at time 0.
SelectShapes ==
  [total : {MinTotalMessages - 1, MinTotalMessages}, last : {0, 1},
   segment : {"", "VIP_CUSTOMER"}]

\* NOW() when the query runs: the labels are just under, exactly, and just
\* over seven days old.
SelectClocks == {SegmentMaxAge - 1, SegmentMaxAge, SegmentMaxAge + 1}

SelectLimits == {1, 2, DefaultLimit}

\* Variant: the WHERE clause without its total_messages condition.
NeedsSegmentationAnyTotal(c, now) ==
  \/ c.segment = NULL
  \/ (c.segment_updated_at # NULL /\ c.segment_updated_at[1] < now - SegmentMaxAge)

\* WHERE (segment IS NULL OR segment_updated_at < NOW() - INTERVAL '7 days')
\*   AND total_messages >= 3
NeedsSegmentation(c, now) ==
  /\ \/ c.segment = NULL
     \/ (c.segment_updated_at # NULL /\ c.segment_updated_at[1] < now - SegmentMaxAge)
  /\ c.total_messages >= MinTotalMessages

\* ORDER BY last_message_at DESC: the rows in every order the sort can leave
\* them in, rows with equal keys in any order.
OrderedByLastMessage(rows) ==
  { q \in [1..Cardinality(rows) -> rows] :
      /\ \A i, j \in DOMAIN q : i # j => q[i] # q[j]
      /\ \A i, j \in DOMAIN q : i < j => q[i].last_message_at >= q[j].last_message_at }

\* LIMIT $1
Limit(q, n) == SubSeq(q, 1, IF n < Len(q) THEN n ELSE Len(q))

GetCustomersForSegmentation ==
  /\ selected = NULL
  /\ \E q \in OrderedByLastMessage({c \in customers : NeedsSegmentation(c, clock)}) :
       selected' = Some(Limit(q, selLimit))
  /\ UNCHANGED <<selLimit, segStats, digestVars, poolVars, segVars, parseVars, customers, ingestVars>>

\* The query applied to every table, time and limit of the sets above; only
\* table customers is read.
SelectInit ==
  /\ clock \in SelectClocks
  /\ nreq = 0
  /\ nextMsgId = 0
  /\ customers \in TablesOf(SelectShapes, MaxSelectRows)
  /\ chat_sessions = {}
  /\ messages = {}
  /\ WebhooksIdle
  /\ SegmentationIdle
  /\ ParserIdle
  /\ selLimit \in SelectLimits
  /\ selected = NULL
  /\ segStats = NULL
  /\ DigestIdle
  /\ PoolIdle

SelectNext == GetCustomersForSegmentation

SelectSpec == SelectInit /\ [][SelectNext]_vars

\* ------------------------------------------ LLMService.getSegmentationStats
StatsShapes ==
  [total : {MinTotalMessages}, last : {0},
   segment : {"", "VIP_CUSTOMER", "NEW_CUSTOMER"}]

\* A number as its decimal string: COUNT(*) reaches the program as one
\* (bigint), and so does a numeric key of an object.
RECURSIVE DecimalText(_)
DecimalText(n) ==
  IF n < 10 THEN SubSeq(DigitChars, n + 1, n + 1)
  ELSE DecimalText(n \div 10) \o SubSeq(DigitChars, (n % 10) + 1, (n % 10) + 1)

\* parseInt of a string of decimal digits.
parseInt(s) == DecimalValue(s)

\* Variant: COUNT(*) over all labelled rows, without GROUP BY.
CountOfLabelled(rows, segment) ==
  DecimalText(Cardinality({c \in rows : c.segment # NULL}))

\* COUNT(*) of one group of GROUP BY segment.
CountOfGroup(rows, segment) ==
  DecimalText(Cardinality({c \in rows : c.segment = Some(segment)}))

\* SELECT segment, COUNT(*) as count FROM customers WHERE segment IS NOT NULL
\* GROUP BY segment: one row per label that occurs.
SegmentCounts(rows) ==
  { [segment |-> g, count |-> CountOfGroup(rows, g)]
      : g \in {c.segment[1] : c \in {x \in rows : x.segment # NULL}} }

\* rows.reduce((acc, row) => { acc[row.segment] = parseInt(row.count) }, {}):
\* the object as a function from its keys; the order of the rows does not
\* matter, every key is assigned once.
StatsObject(rows) ==
  [g \in {r.segment : r \in rows} |->
     parseInt((CHOOSE r \in rows : r.segment = g).count)]

\* A rejected query returns nothing: the error is logged and rethrown.
GetSegmentationStats ==
  /\ segStats = NULL
  /\ segStats' = Some(StatsObject(SegmentCounts(customers)))
  /\ UNCHANGED <<selLimit, selected, digestVars, poolVars, segVars, parseVars, customers, ingestVars>>

\* The statistics of every table of the set above; only table customers is
\* read.
StatsInit ==
  /\ clock = 0
  /\ nreq = 0
  /\ nextMsgId = 0
  /\ customers \in TablesOf(StatsShapes, MaxStatsRows)
  /\ chat_sessions = {}
  /\ messages = {}
  /\ WebhooksIdle
  /\ SegmentationIdle
  /\ ParserIdle
  /\ QueriesIdle
  /\ DigestIdle
  /\ PoolIdle

StatsNext == GetSegmentationStats

StatsSpec == StatsInit /\ [][StatsNext]_vars

\* ============================================================== the digest
\* Message times (seconds) at 00:00:00, 00:00:30, 02:59:00, 03:00:30 and
\* 09:00:00 of one day.
MessageTimes == {0, 30, 10740, 10830, 32400}

DigestMessages == [timestamp : MessageTimes, isFromMe : BOOLEAN]

\* ORDER BY timestamp DESC LIMIT 100: the rows newest first, rows of the same
\* time in any order.
NewestFirst ==
  { q \in UNION { [1..n -> DigestMessages] : n \in 0..MaxMessages } :
      \A i, j \in DOMAIN q : i < j => q[i].timestamp >= q[j].timestamp }

\* The customer's first_message_at and last_message_at with the history's
\* messages.
Histories ==
  [recentMessages : NewestFirst, first_message_at : {0},
   last_message_at : {0, SecondsPerDay}]

\* --------------------------- WhatsAppService.getCustomerConversationHistory
\* Math.floor((Date.now() - first_message_at) / (1000 * 60 * 60 * 24))
daysAsCustomer(h, now) == (now - h.first_message_at) \div SecondsPerDay

\* ---------------------------------- LLMService.formatCustomerDataForAnalysis
\* new Date(msg.timestamp).getHours()
getHours(timestamp) == (timestamp \div 3600) % 24

\* messages.reduce(...): the object messagesByHour as a function from its
\* keys.
messagesByHour(msgs) ==
  [h \in {getHours(msgs[i].timestamp) : i \in DOMAIN msgs} |->
     Cardinality({i \in DOMAIN msgs : getHours(msgs[i].timestamp) = h})]

\* Object.entries(messagesByHour): the keys are integer indices, which an
\* object enumerates in ascending numeric order, whatever the order in which
\* they were created.
Entries(msgs) ==
  LET byHour == messagesByHour(msgs)
      keys == CHOOSE q \in [1..Cardinality(DOMAIN byHour) -> DOMAIN byHour] :
                \A i, j \in DOMAIN q : i < j => q[i] < q[j]
  IN [i \in DOMAIN keys |-> [hour |-> DecimalText(keys[i]), count |-> byHour[keys[i]]]]

\* Array.prototype.sort is stable: an entry goes behind the entries that have
\* at least its count.
RECURSIVE SortByCountDesc(_)
SortByCountDesc(entries) ==
  IF entries = <<>> THEN <<>>
  ELSE LET e == entries[Len(entries)]
           sorted == SortByCountDesc(SubSeq(entries, 1, Len(entries) - 1))
           k == Cardinality({i \in DOMAIN sorted : sorted[i].count >= e.count})
       IN SubSeq(sorted, 1, k) \o <<e>> \o SubSeq(sorted, k + 1, Len(sorted))

\* .sort(([,a], [,b]) => b - a).slice(0, 3).map(([hour]) => parseInt(hour))
mostActiveHours(msgs) ==
  LET top == Limit(SortByCountDesc(Entries(msgs)), 3)
  IN [i \in DOMAIN top |-> parseInt(top[i].hour)]

\* ------------------------------------ LLMService.calculateAverageResponseTime
\* messages.sort((a, b) => a.timestamp - b.timestamp), stable: a message goes
\* behind the messages that are not later than it.
RECURSIVE SortByTimestamp(_)
SortByTimestamp(msgs) ==
  IF msgs = <<>> THEN <<>>
  ELSE LET m == msgs[Len(msgs)]
           sorted == SortByTimestamp(SubSeq(msgs, 1, Len(msgs) - 1))
           k == Cardinality({i \in DOMAIN sorted : sorted[i].timestamp <= m.timestamp})
       IN SubSeq(sorted, 1, k) \o <<m>> \o SubSeq(sorted, k + 1, Len(sorted))

\* Variant: every pair of neighbours counts.
IsResponseAlways(previous, current) == TRUE

\* if (!current.isFromMe && previous.isFromMe)
IsResponse(previous, current) == ~current.isFromMe /\ previous.isFromMe

\* The greatest common divisor of two numbers.
RECURSIVE GCD(_, _)
GCD(a, b) == IF b = 0 THEN a ELSE GCD(b, a % b)

\* The quotient n / d of two numbers, exactly.
Quotient(n, d) ==
  IF n = 0 THEN [num |-> 0, den |-> 1]
  ELSE [num |-> n \div GCD(n, d), den |-> d \div GCD(n, d)]

\* The sum of f over the indices.
RECURSIVE SumOf(_, _)
SumOf(f, indices) ==
  IF indices = {} THEN 0
  ELSE LET i == CHOOSE x \in indices : TRUE
       IN f[i] + SumOf(f, indices \ {i})

\* The loop over the sorted messages: totalResponseTime / responseCount / 1000,
\* in seconds, or 0 without a response.
calculateAverageResponseTime(msgs) ==
  IF Len(msgs) < 2 THEN Quotient(0, 1)
  ELSE LET sortedMessages == SortByTimestamp(msgs)
           responses == {i \in 2..Len(sortedMessages) :
                           IsResponse(sortedMessages[i - 1], sortedMessages[i])}
           responseTime == [i \in responses |->
                              sortedMessages[i].timestamp - sortedMessages[i - 1].timestamp]
           totalResponseTime == SumOf(responseTime, responses)
           responseCount == Cardinality(responses)
       IN IF responseCount > 0
          THEN Quotient(totalResponseTime, responseCount)
          ELSE Quotient(0, 1)

\* getCustomerConversationHistory's result handed to
\* formatCustomerDataForAnalysis at time clock.
BuildDigest ==
  /\ digest = NULL
  /\ digest' = Some([daysAsCustomer |-> daysAsCustomer(history, clock),
                     mostActiveHours |-> mostActiveHours(history.recentMessages),
                     averageResponseTime |->
                       calculateAverageResponseTime(history.recentMessages)])
  /\ UNCHANGED <<history, topicMessages, commonTopics, queryVars, poolVars, segVars, parseVars,
                 customers, ingestVars>>

\* The digest of every history of the set above, built when the last message
\* is stored or a day later.
DigestInit ==
  /\ history \in Histories
  /\ clock \in {history.last_message_at, history.last_message_at + SecondsPerDay}
  /\ nreq = 0
  /\ nextMsgId = 0
  /\ customers = {}
  /\ chat_sessions = {}
  /\ messages = {}
  /\ WebhooksIdle
  /\ SegmentationIdle
  /\ ParserIdle
  /\ QueriesIdle
  /\ PoolIdle
  /\ digest = NULL
  /\ topicMessages = <<>>
  /\ commonTopics = NULL

DigestNext == BuildDigest

DigestSpec == DigestInit /\ [][DigestNext]_vars

\* ------------------------------------------ LLMService.extractCommonTopics
\* Message bodies: two with four words each, one with a capital, a word and
\* a number, one with a stop-word and a short word, and an empty one.
TopicBodies ==
  {"kirim barang besok pagi", "warna merah ukuran kecil", "Halo harga 2024",
   "yang apa halo", ""}

TopicMessages ==
  UNION { [1..n -> [messageBody : TopicBodies, isFromMe : BOOLEAN]]
            : n \in 0..MaxTopicMessages }

UpperCase == "ABCDEFGHIJKLMNOPQRSTUVWXYZ"

LowerCase == "abcdefghijklmnopqrstuvwxyz"

\* String.prototype.toLowerCase, for the letters A to Z.
RECURSIVE toLowerCase(_)
toLowerCase(s) ==
  IF s = "" THEN ""
  ELSE LET c == SubSeq(s, Len(s), Len(s))
           up == {k \in 1..Len(UpperCase) : SubSeq(UpperCase, k, k) = c}
       IN toLowerCase(SubSeq(s, 1, Len(s) - 1))
            \o (IF up = {} THEN c
                ELSE LET k == CHOOSE x \in up : TRUE IN SubSeq(LowerCase, k, k))

\* Array.prototype.join(' ')
RECURSIVE Join(_)
Join(strings) ==
  IF strings = <<>> THEN ""
  ELSE IF Len(strings) = 1 THEN strings[1]
  ELSE Join(SubSeq(strings, 1, Len(strings) - 1)) \o " " \o strings[Len(strings)]

\* messages.filter(msg => !msg.isFromMe && msg.messageBody)
\*   .map(msg => msg.messageBody.toLowerCase()).join(' ')
allText(msgs) ==
  LET Kept(m) == ~m.isFromMe /\ m.messageBody # ""
      kept == SelectSeq(msgs, Kept)
  IN Join([i \in DOMAIN kept |-> toLowerCase(kept[i].messageBody)])

\* text.split(/\s+/), the white space being blanks: the pieces between the
\* runs of blanks, an empty piece before a leading and after a trailing run.
RECURSIVE Split(_)
Split(text) ==
  LET blanks == {i \in 1..Len(text) : SubSeq(text, i, i) = " "}
  IN IF blanks = {} THEN <<text>>
     ELSE LET k == CHOOSE i \in blanks : \A j \in blanks : i <= j
              after == {i \in (k + 1)..Len(text) : SubSeq(text, i, i) # " "}
              next == IF after = {} THEN Len(text) + 1
                      ELSE CHOOSE i \in after : \A j \in after : i <= j
          IN <<SubSeq(text, 1, k - 1)>> \o Split(SubSeq(text, next, Len(text)))

\* /^(yang|untuk|dengan|adalah|akan|jadi|bisa|kalo|gimana|kenapa)$/
StopWords ==
  {"yang", "untuk", "dengan", "adalah", "akan", "jadi", "bisa", "kalo",
   "gimana", "kenapa"}

\* The two filters: word.length > 3 and not a stop-word.
TopicWords(text) ==
  LET Kept(word) == Len(word) >= MinWordLength /\ word \notin StopWords
  IN SelectSeq(Split(text), Kept)

\* The keys of the object in the order in which the reduce created them.
RECURSIVE CreatedKeys(_)
CreatedKeys(words) ==
  IF words = <<>> THEN <<>>
  ELSE LET keys == CreatedKeys(SubSeq(words, 1, Len(words) - 1))
           w == words[Len(words)]
       IN IF \E i \in DOMAIN keys : keys[i] = w THEN keys ELSE Append(keys, w)

\* The largest array index, 2^32 - 2, in decimal.
MaxArrayIndex == "4294967294"

\* a <= b for two strings of digits of the same length.
RECURSIVE DigitsLeq(_, _)
DigitsLeq(a, b) ==
  \/ a = ""
  \/ DigitValue(SubSeq(a, 1, 1)) < DigitValue(SubSeq(b, 1, 1))
  \/ /\ SubSeq(a, 1, 1) = SubSeq(b, 1, 1)
     /\ DigitsLeq(SubSeq(a, 2, Len(a)), SubSeq(b, 2, Len(b)))

\* A key that is the decimal form of an integer up to 2^32 - 2 is an array
\* index.
IsArrayIndex(key) ==
  /\ key # ""
  /\ IsDigits(key)
  /\ (Len(key) > 1 => SubSeq(key, 1, 1) # "0")
  /\ \/ Len(key) < Len(MaxArrayIndex)
     \/ Len(key) = Len(MaxArrayIndex) /\ DigitsLeq(key, MaxArrayIndex)

\* The array indices in ascending numeric order (indices of up to nine
\* digits).
RECURSIVE SortByIndex(_)
SortByIndex(keys) ==
  IF keys = <<>> THEN <<>>
  ELSE LET key == keys[Len(keys)]
           sorted == SortByIndex(SubSeq(keys, 1, Len(keys) - 1))
           k == Cardinality({i \in DOMAIN sorted :
                               DecimalValue(sorted[i]) <= DecimalValue(key)})
       IN SubSeq(sorted, 1, k) \o <<key>> \o SubSeq(sorted, k + 1, Len(sorted))

\* Object.entries(commonWords): an object enumerates its array-index keys
\* first, in ascending numeric order, then its other keys in the order of
\* their creation.
WordEntries(words) ==
  LET created == CreatedKeys(words)
      Other(key) == ~IsArrayIndex(key)
      keys == SortByIndex(SelectSeq(created, IsArrayIndex)) \o SelectSeq(created, Other)
  IN [i \in DOMAIN keys |->
        [word |-> keys[i],
         count |-> Cardinality({j \in DOMAIN words : words[j] = keys[i]})]]

\* .sort(([,a], [,b]) => b - a).slice(0, 10).map(([word]) => word)
extractCommonTopics(text) ==
  LET top == Limit(SortByCountDesc(WordEntries(TopicWords(text))), MaxTopics)
  IN [i \in DOMAIN top |-> top[i].word]

\* formatCustomerDataForAnalysis: commonWords of the customer's bodies.
ExtractCommonTopics ==
  /\ commonTopics = NULL
  /\ commonTopics' = Some(extractCommonTopics(allText(topicMessages)))
  /\ UNCHANGED <<history, digest, topicMessages, queryVars, poolVars, segVars, parseVars,
                 customers, ingestVars>>

\* The common topics of every list of messages of the set above.
TopicInit ==
  /\ clock = 0
  /\ nreq = 0
  /\ nextMsgId = 0
  /\ customers = {}
  /\ chat_sessions = {}
  /\ messages = {}
  /\ WebhooksIdle
  /\ SegmentationIdle
  /\ ParserIdle
  /\ QueriesIdle
  /\ PoolIdle
  /\ history = NoHistory
  /\ digest = NULL
  /\ topicMessages \in TopicMessages
  /\ commonTopics = NULL

TopicNext == ExtractCommonTopics

TopicSpec == TopicInit /\ [][TopicNext]_vars

\* ------------------------------------------------------- DatabaseService
\* The clients of the pool.
PoolClients == 1..PoolMax

\* A statement sent over a client returns or throws.
Outcomes == {"returns", "throws"}

\* query or transaction is called.
CallDatabase(o) ==
  /\ dbOps[o].stage = "free"
  /\ \E kind \in {"query", "transaction"} :
       dbOps' = [dbOps EXCEPT ![o] = [@ EXCEPT !.kind = kind, !.stage = "getClient"]]
  /\ UNCHANGED <<checkedOut, queryVars, digestVars, segVars, parseVars, customers, ingestVars>>

\* getClient: pool.connect hands out a client that is not checked out, or
\* fails (no connection, or none free within connectionTimeoutMillis) and
\* getClient throws before the try block is entered.
GetClient(o) ==
  /\ dbOps[o].stage = "getClient"
  /\ \/ /\ checkedOut # PoolClients
        /\ LET client == CHOOSE c \in PoolClients \ checkedOut :
                           \A d \in PoolClients \ checkedOut : c <= d
           IN /\ checkedOut' = checkedOut \cup {client}
              /\ dbOps' = [dbOps EXCEPT ![o] =
                   [@ EXCEPT !.client = Some(client), !.acquired = @ + 1,
                             !.stage = IF dbOps[o].kind = "query" THEN "statement" ELSE "BEGIN"]]
     \/ /\ dbOps' = [dbOps EXCEPT ![o] =
             [@ EXCEPT !.stage = "done", !.failedAt = "getClient",
                       !.outcome = "DatabaseServiceError"]]
        /\ UNCHANGED checkedOut
  /\ UNCHANGED <<queryVars, digestVars, segVars, parseVars, customers, ingestVars>>

\* The call ends as if it had no finally block: the client stays checked out.
FinallySkipped(o, outcome) ==
  /\ dbOps' = [dbOps EXCEPT ![o] = [@ EXCEPT !.stage = "done", !.outcome = outcome]]
  /\ UNCHANGED checkedOut

\* finally { client.release() }, and then the call returns or throws.
Finally(o, outcome) ==
  /\ checkedOut' = checkedOut \ {dbOps[o].client[1]}
  /\ dbOps' = [dbOps EXCEPT ![o] =
       [@ EXCEPT !.client = NULL, !.released = @ + 1, !.stage = "done",
                 !.outcome = outcome]]

\* query: client.query(text, params) returns, or throws and the catch block
\* throws DatabaseServiceError; the finally block runs on both ways.
RunQuery(o) ==
  /\ dbOps[o].stage = "statement"
  /\ \E way \in Outcomes :
       IF way = "returns"
         THEN Finally(o, "result")
         ELSE Finally(o, "DatabaseServiceError")
  /\ UNCHANGED <<queryVars, digestVars, segVars, parseVars, customers, ingestVars>>

\* transaction: BEGIN, the callback and COMMIT, each returns or throws; what
\* throws is caught and ROLLBACK is sent.
TransactionStep(o) ==
  /\ dbOps[o].stage \in {"BEGIN", "callback"}
  /\ \E way \in Outcomes :
       dbOps' = [dbOps EXCEPT ![o] =
         IF way = "returns"
           THEN [@ EXCEPT !.stage = IF dbOps[o].stage = "BEGIN" THEN "callback" ELSE "COMMIT"]
           ELSE [@ EXCEPT !.stage = "ROLLBACK", !.failedAt = dbOps[o].stage]]
  /\ UNCHANGED <<checkedOut, queryVars, digestVars, segVars, parseVars, customers, ingestVars>>

\* transaction: COMMIT returns and the finally block runs before the result
\* is returned, or COMMIT throws and ROLLBACK is sent.
CommitTransaction(o) ==
  /\ dbOps[o].stage = "COMMIT"
  /\ \/ Finally(o, "result")
     \/ /\ dbOps' = [dbOps EXCEPT ![o] =
             [@ EXCEPT !.stage = "ROLLBACK", !.failedAt = "COMMIT"]]
        /\ UNCHANGED checkedOut
  /\ UNCHANGED <<queryVars, digestVars, segVars, parseVars, customers, ingestVars>>

\* transaction, catch block: ROLLBACK returns and DatabaseServiceError is
\* thrown, or ROLLBACK throws and its error leaves the catch block; the
\* finally block runs on both ways.
RollbackTransaction(o) ==
  /\ dbOps[o].stage = "ROLLBACK"
  /\ \E way \in Outcomes :
       IF way = "returns"
         THEN Finally(o, "DatabaseServiceError")
         ELSE Finally(o, "rollbackError")
  /\ UNCHANGED <<queryVars, digestVars, segVars, parseVars, customers, ingestVars>>

PoolNext ==
  \E o \in DbOps :
    \/ CallDatabase(o)
    \/ GetClient(o)
    \/ RunQuery(o)
    \/ TransactionStep(o)
    \/ CommitTransaction(o)
    \/ RollbackTransaction(o)

\* Calls of query and transaction in flight at the same time, on an empty
\* database.
PoolSpec == Init /\ [][PoolNext]_vars

TypeOK ==
  /\ clock \in Nat
  /\ nreq \in 0..MaxRequests
  /\ pc \in [Workers -> StatementPcs \cup {"idle", "statusUpdate", "rollback"}]
  /\ resp \in [Workers -> {0, StatusOk, StatusBadRequest, StatusWebhookFailure}]
  /\ nseg \in 0..MaxSegRequests
  /\ batch.state \in {"idle", "running", "delay", "done"}
  /\ batch.next \in 1..(Len(batch.ids) + 1)
  /\ \A t \in SegTasks :
       segTasks[t].resp \in {0, StatusOk, StatusBadRequest, StatusInternalError}
  /\ checkedOut \subseteq PoolClients
  /\ \A o \in DbOps : dbOps[o].acquired \in 0..1

\* ------------------------------------------------------------ the claims
SessionsOf(customerId) == {s \in chat_sessions : s.customer_id = customerId}

MessagesOf(customerId) == {m \in messages : m.customer_id = customerId}

ActiveSessionsOf(customerId) == {s \in SessionsOf(customerId) : s.is_active}

SessionRow(id) == CHOOSE s \in chat_sessions : s.id = id

\* C1: in every reachable state, also while webhooks of the same customer
\* are processed concurrently, a customer has at most one active ChatSession.
C1_AtMostOneActiveSession ==
  \A c \in customers : Cardinality(ActiveSessionsOf(c.id)) <= 1

\* C2: of two concurrent message webhooks from the same unseen number, the
\* second finds the first one's Customer row: no request fails on the unique
\* phone-number constraint.
C2_NoRequestFailsOnPhoneConstraint ==
  \A w \in Workers : err[w] # "unique_phone"

\* An in-flight message webhook whose external id is already stored.
Redelivery(w) ==
  /\ pc[w] # "idle"
  /\ req[w].event = "message"
  /\ \E m \in messages : m.waha_message_id = req[w].id

CounterView ==
  <<messages,
    {<<c.id, c.total_messages>> : c \in customers},
    {<<s.id, s.message_count, s.is_active>> : s \in chat_sessions}>>

\* C3: no step of a re-delivery (a message webhook whose external id is
\* already stored) adds a Message row or changes a Customer's total_messages
\* or a ChatSession's message_count or is_active.
C3_RedeliveryChangesNothing ==
  [][\A w \in Workers :
       (Redelivery(w) /\ pc'[w] # pc[w]) => CounterView' = CounterView]_vars

\* A re-delivery has been processed: its insert hit the unique external id
\* and the request has been answered.
C3_Witness ==
  \E w \in Workers :
    pc[w] = "idle" /\ err[w] = "unique_message_id" /\ messages # {}

\* C4: after the first message webhook of an unseen number there is exactly
\* one Customer, one ChatSession and one Message row for it, and the
\* Customer's total_messages is 1.
C4_FirstMessageCountsOne ==
  \A c \in customers :
    Cardinality(MessagesOf(c.id)) = 1 =>
      /\ Cardinality({d \in customers : d.phone_number = c.phone_number}) = 1
      /\ Cardinality(SessionsOf(c.id)) = 1
      /\ c.total_messages = 1

\* C5: two messages of the same number ingested less than 30 minutes apart
\* (processing time) carry the same ChatSession id, whatever came before.
C5_CloseMessagesShareSession ==
  \A m1, m2 \in messages :
    ( /\ m1.customer_id = m2.customer_id
      /\ m1.created_at <= m2.created_at
      /\ m2.created_at - m1.created_at < SessionWindow )
    => m1.session_id = m2.session_id

\* The messages of the customer that were ingested last.
LatestMessagesOf(customerId) ==
  {m \in MessagesOf(customerId) :
     \A n \in MessagesOf(customerId) : n.created_at <= m.created_at}

\* C6: two messages of the same number ingested one after the other more
\* than 30 minutes apart are in different ChatSessions, the earlier session
\* is inactive with a session_end, and the session of the customer's latest
\* message is the customer's only active one.
C6_FarMessagesSplitSessions ==
  \A m1, m2 \in messages :
    ( /\ m1.customer_id = m2.customer_id
      /\ m2.created_at - m1.created_at > SessionWindow )
    => /\ m1.session_id # m2.session_id
       /\ ~SessionRow(m1.session_id).is_active
       /\ SessionRow(m1.session_id).session_end # NULL
       /\ Ids(ActiveSessionsOf(m1.customer_id))
            = {m.session_id : m \in LatestMessagesOf(m1.customer_id)}

\* Two messages of one customer stored more than 30 minutes apart.
C6_Witness ==
  \E m1, m2 \in messages :
    /\ m1.customer_id = m2.customer_id
    /\ m2.created_at - m1.created_at > SessionWindow

\* C7: a message webhook whose transaction fails at any step commits nothing:
\* the only step of a message webhook that changes the stored tables is its
\* successful COMMIT.
C7_FailedWebhookWritesNothing ==
  [][\A w \in Workers :
       ( /\ req[w].event = "message"
         /\ pc'[w] # pc[w]
         /\ (pc[w] # "commit" \/ err[w] # "none" \/ err'[w] # "none") )
       => db' = db]_vars

\* A transaction has failed after it had inserted its Message row, and is
\* about to be rolled back.
C7_Witness ==
  \E w \in Workers :
    pc[w] = "rollback" /\ err[w] = "storage" /\ tx[w].insMessages # {}

\* C8: no two Customer rows share a phone number and no two Message rows
\* share an external message id.
C8_UniqueKeys ==
  /\ \A c, d \in customers : c.phone_number = d.phone_number => c = d
  /\ \A m, n \in messages : m.waha_message_id = n.waha_message_id => m = n

\* Two deliveries raced to insert the same number and the constraint
\* rejected the second insert.
C8_Witness ==
  /\ \E w \in Workers : err[w] = "unique_phone"
  /\ customers # {}

\* C9: a message or status webhook whose processing failed internally is
\* answered with status 500.
C9_FailureAnswered500 ==
  \A w \in Workers :
    (pc[w] = "idle" /\ err[w] # "none") => resp[w] = StatusInternalError

\* C10: a structurally valid envelope with an event type other than
\* 'message' and 'session.status' is answered 200.
C10_UnknownEventAccepted ==
  \A w \in Workers :
    ( /\ pc[w] = "idle"
      /\ req[w].shapeOk
      /\ req[w].event \notin {"message", "session.status"} )
    => resp[w] = StatusOk

\* The step in which task w takes a new delivery (its body is req'[w]).
Received(w) ==
  /\ nreq' = nreq + 1
  /\ pc[w] = "idle"
  /\ \A v \in Workers : v < w => pc[v] # "idle"

\* C11: a webhook body that fails structural validation is answered 400 in
\* the step that receives it; the task stays idle, so no statement is issued
\* for it, no transaction is opened and no stored row changes.
C11_RejectedBodyTouchesNothing ==
  [][\A w \in Workers :
       ( /\ Received(w)
         /\ ~(req'[w].event \in {"message", "session.status"} /\ req'[w].shapeOk) )
       => /\ resp'[w] = StatusBadRequest
          /\ pc'[w] = "idle"
          /\ tx' = tx
          /\ db' = db]_vars

\* A message body with a required field missing has been answered 400.
C11_Witness ==
  \E w \in Workers :
    /\ pc[w] = "idle"
    /\ req[w].event = "message"
    /\ ~req[w].shapeOk
    /\ resp[w] = StatusBadRequest

\* C12: a message webhook with fromMe = true is answered 200 in the step
\* that receives it; the task stays idle, no transaction is opened, and no
\* Customer, ChatSession or Message row and no counter changes.
C12_SelfSentIsNoOp ==
  [][\A w \in Workers :
       ( /\ Received(w)
         /\ req'[w].event = "message"
         /\ req'[w].shapeOk
         /\ req'[w].fromMe )
       => /\ resp'[w] = StatusOk
          /\ pc'[w] = "idle"
          /\ tx' = tx
          /\ db' = db]_vars

\* A self-sent message has been answered 200.
C12_Witness ==
  \E w \in Workers :
    /\ pc[w] = "idle"
    /\ req[w].event = "message"
    /\ req[w].shapeOk
    /\ req[w].fromMe
    /\ resp[w] = StatusOk

\* The transaction has written nothing so far.
NoWrites(t) ==
  /\ t.insCustomers = {}
  /\ t.updCustomers = {}
  /\ t.insSessions = {}
  /\ t.updSessions = {}
  /\ t.insMessages = {}

\* C13: no step of a message webhook whose sender identifier is shorter than
\* 10 characters once the transport suffix is stripped writes a Customer,
\* ChatSession or Message row, neither into its transaction nor into the
\* stored tables.
C13_ShortSenderWritesNothing ==
  [][\A w \in Workers :
       ( /\ pc[w] # "idle"
         /\ req[w].event = "message"
         /\ Len(extractPhoneNumber(req[w].from)) < MinPhoneLength
         /\ pc'[w] # pc[w] )
       => /\ db' = db
          /\ NoWrites(tx'[w])]_vars

\* The only delivery so far was a message, it has been processed to the end
\* and answered, and nothing is stored: its sender was too short.
C13_Witness ==
  /\ nreq = 1
  /\ nextMsgId = 1
  /\ pc[Solo] = "idle"
  /\ req[Solo] = NoBody
  /\ resp[Solo] = StatusOk
  /\ customers = {}

\* C14: a status update whose external id matches no Message row and whose
\* UPDATE the database executes is answered 200 without an error, and leaves
\* every stored row unchanged.
C14_UnknownStatusIsNoOp ==
  [][\A w \in Workers :
       ( /\ pc[w] = "statusUpdate"
         /\ pc'[w] # pc[w]
         /\ err'[w] # "storage"
         /\ ~(\E m \in messages : m.waha_message_id = req[w].id) )
       => /\ db' = db
          /\ resp'[w] = StatusOk
          /\ err'[w] = "none"]_vars

\* The only delivery so far was a status update (no message id has been
\* issued yet, so its id is unknown) and it has been answered 200.
C14_Witness ==
  /\ nreq = 1
  /\ nextMsgId = 0
  /\ pc[Solo] = "idle"
  /\ req[Solo] = NoBody
  /\ resp[Solo] = StatusOk

UnusableObject(o) ==
  \/ o.segment \notin ValidSegments
  \/ o.confidence.type # "number"
  \/ o.confidence.value < 0
  \/ o.confidence.value > ConfidenceOne

\* C16: for a classifier answer in which every JSON object (if there is one
\* at all) has an unknown label or a confidence that is not a number in
\* [0,1], parseSegmentationResponse returns the fallback result:
\* REGULAR_CUSTOMER, 0.5, the fallback rationale, ['parsing_error'].
C16_UnusableAnswerGivesFallback ==
  ( /\ llmResult # NULL
    /\ \A i \in 1..Len(llmText) :
         llmText[i].kind = "object" => UnusableObject(llmText[i].obj) )
  => llmResult[1] =
       [segment |-> "REGULAR_CUSTOMER", confidence |-> 50,
        reasoning |-> "Failed to parse LLM response, assigned default segment",
        characteristics |-> <<"parsing_error">>]

\* An answer with a known label and a confidence above 1 has been parsed.
C16_Witness ==
  /\ llmResult # NULL
  /\ \E i \in 1..Len(llmText) :
       /\ llmText[i].kind = "object"
       /\ llmText[i].obj.segment \in ValidSegments
       /\ llmText[i].obj.confidence.type = "number"
       /\ llmText[i].obj.confidence.value > ConfidenceOne
  /\ \A i \in 1..Len(llmText) :
       llmText[i].kind = "object" => UnusableObject(llmText[i].obj)

\* The ids the batch run has started a segmentation for, in order.
IsStarted(e) == e.ev = "started"

AttemptedIds ==
  LET started == SelectSeq(batchLog, IsStarted)
  IN [i \in 1..Len(started) |-> started[i].id]

\* The ids whose segmentation returned.
SucceededIds ==
  {batchLog[i].id : i \in {j \in 1..Len(batchLog) : batchLog[j].ev = "completed"}}

\* C17: a batch run never raises, it ends, and when it has ended it has
\* started a segmentation for every id of the list, in list order, and the
\* keys of the returned map are exactly the ids whose segmentation returned.
C17_BatchAttemptsAll ==
  /\ [](batch.state # "raised")
  /\ [](batch.state = "done" =>
          /\ AttemptedIds = batch.ids
          /\ {p[1] : p \in batch.results} = SucceededIds)
  /\ (batch.state = "running" ~> batch.state = "done")

\* A run has ended in which a segmentation failed and a later one returned.
C17_Witness ==
  /\ batch.state = "done"
  /\ \E i, j \in 1..Len(batchLog) :
       /\ i < j
       /\ batchLog[i].ev = "failed"
       /\ batchLog[j].ev = "completed"

\* C18: between any two classifier calls of a batch run the inter-call delay
\* elapses, whether the earlier call succeeded or failed.
C18_DelayBetweenCalls ==
  \A i, j \in 1..Len(batchLog) :
    (i < j /\ batchLog[i].ev = "call" /\ batchLog[j].ev = "call")
    => \E k \in (i + 1)..(j - 1) : batchLog[k].ev = "delay"

\* C19: a batch run has at most one segmentation, hence at most one
\* classifier call, in flight; a segmentation is started only after the
\* previous one has returned (and the delay is over) or has failed.
C19_OneCallInFlight ==
  /\ Cardinality(BatchTasks) <= 1
  /\ \A i \in 2..Len(batchLog) :
       batchLog[i].ev = "started" => batchLog[i - 1].ev \in {"failed", "delay"}

\* The classifier has been called for a second id of the batch.
C19_Witness ==
  \E i, j \in 1..Len(batchLog) :
    i < j /\ batchLog[i].ev = "call" /\ batchLog[j].ev = "call"

\* C20: an on-demand segmentation whose :customerId is not a number is
\* answered 400 without a storage query and without a classifier call.
C20_NonNumericIdRejected ==
  \A t \in SegTasks :
    ( /\ segTasks[t].origin = "http"
      /\ ~IsDigits(segTasks[t].param) )
    => /\ ~segTasks[t].queried
       /\ ~segTasks[t].called
       /\ segTasks[t].stage = "answered" => segTasks[t].resp = StatusBadRequest

\* C21: when the classifier call of an on-demand segmentation fails, the
\* request is answered with a 5xx status in that step, without a result, and
\* no Customer row (so no segment and no segment_updated_at) changes.
C21_FailedCallLeavesLabel ==
  [][\A t \in SegTasks :
       ( /\ segTasks[t].origin = "http"
         /\ segTasks[t].stage = "callApi"
         /\ segTasks'[t].stage = "answered" )
       => /\ segTasks'[t].resp >= StatusInternalError
          /\ segTasks'[t].result = NULL
          /\ customers' = customers]_vars

\* An on-demand segmentation has been answered after its classifier call
\* failed.
C21_Witness ==
  \E t \in SegTasks :
    /\ segTasks[t].origin = "http"
    /\ segTasks[t].stage = "answered"
    /\ segTasks[t].called
    /\ segTasks[t].result = NULL
    /\ segTasks[t].resp = StatusInternalError

\* C22: the customer query of a segmentation whose id is the id of no
\* Customer row ends the segmentation as failed: no classifier call has been
\* made, none is made, and no stored row changes.
C22_UnknownCustomerFailsEarly ==
  [][\A t \in SegTasks :
       ( /\ segTasks[t].stage = "customerQuery"
         /\ segTasks[t].customerId # NULL
         /\ ~(\E c \in customers : c.id = segTasks[t].customerId[1])
         /\ segTasks'[t] # segTasks[t] )
       => /\ ~segTasks[t].called
          /\ ~segTasks'[t].called
          /\ segTasks'[t].stage \in {"answered", "free"}
          /\ segTasks'[t].origin = "http" => segTasks'[t].resp = StatusInternalError
          /\ segTasks'[t].origin = "none" => batchLog' = Logged("failed", segTasks[t].customerId[1])
          /\ db' = db]_vars

\* An on-demand segmentation of an id without a row has been answered.
C22_Witness ==
  \E t \in SegTasks :
    /\ segTasks[t].origin = "http"
    /\ segTasks[t].stage = "answered"
    /\ segTasks[t].customerId # NULL
    /\ ~(\E c \in customers : c.id = segTasks[t].customerId[1])
    /\ ~segTasks[t].called

\* Task t's UPDATE of the label is done in this step.
LabelWritten(t) ==
  /\ segTasks[t].stage = "updateSegment"
  /\ segTasks'[t].stage = "answered"
  /\ segTasks'[t].resp = StatusOk

\* Task w's transaction commits in this step.
Committed(w) == pc[w] = "commit" /\ pc'[w] = "idle"

\* The row without its label columns.
Unlabelled(c) == [c EXCEPT !.segment = NULL, !.segment_updated_at = NULL]

\* C23: a label write and an ingestion transaction of the same customer are
\* independent under every interleaving. A label write sets the label of its
\* customer and changes nothing but segment and segment_updated_at; no other
\* step changes these two columns; a commit of an ingestion adds one to the
\* total_messages the row has at that moment, and nothing else changes it. So
\* the customer ends with the label and with every message counted. Writing
\* the same label again leaves the label as it is.
C23_LabelAndIngestionIndependent ==
  /\ [][/\ \A c \in customers : \E d \in customers' :
             /\ d.id = c.id
             /\ \A t \in SegTasks : LabelWritten(t) =>
                  /\ Unlabelled(d) = Unlabelled(c)
                  /\ segTasks[t].customerId[1] = c.id
                       => d.segment = Some(segTasks[t].result[1].segment)
                  /\ segTasks[t].customerId[1] # c.id => d = c
             /\ (d.segment # c.segment \/ d.segment_updated_at # c.segment_updated_at)
                  => \E t \in SegTasks : /\ LabelWritten(t)
                                         /\ segTasks[t].customerId[1] = c.id
             /\ \A w \in Workers :
                  (Committed(w) /\ c.id \in Ids(tx[w].updCustomers))
                    => d.total_messages = c.total_messages + 1
             /\ d.total_messages # c.total_messages
                  => \E w \in Workers : /\ Committed(w)
                                        /\ c.id \in Ids(tx[w].updCustomers)
        /\ (\E t \in SegTasks : LabelWritten(t))
             => /\ chat_sessions' = chat_sessions
                /\ messages' = messages
                /\ Ids(customers') = Ids(customers)]_vars
  /\ [](\A c \in customers :
          /\ c.total_messages = Cardinality(MessagesOf(c.id)) + 1
          /\ \A t \in SegTasks :
               ( /\ segTasks[t].stage = "answered"
                 /\ segTasks[t].resp = StatusOk
                 /\ segTasks[t].customerId = Some(c.id) )
               => c.segment # NULL
          /\ \A s \in ValidSegments :
               LET once == WithSegment(customers, c.id, s, clock)
                   twice == WithSegment(once, c.id, s, clock + 1)
               IN {Unlabelled(r) : r \in twice} = {Unlabelled(r) : r \in once}
                  /\ {<<r.id, r.segment>> : r \in twice}
                       = {<<r.id, r.segment>> : r \in once})

\* A customer with a label and a second message counted, both written while
\* the other operation was possible.
C23_Witness ==
  \E c \in customers :
    /\ c.segment # NULL
    /\ c.total_messages >= 3
    /\ \E t \in SegTasks : /\ segTasks[t].stage = "answered"
                           /\ segTasks[t].resp = StatusOk
                           /\ segTasks[t].customerId = Some(c.id)

\* C24: every Customer's segment is null or one of the seven labels,
\* whatever the classifier answered.
C24_StoredLabelIsKnown ==
  \A c \in customers :
    \/ c.segment = NULL
    \/ c.segment[1] \in {"VIP_CUSTOMER", "REGULAR_CUSTOMER", "POTENTIAL_CUSTOMER",
                         "SUPPORT_SEEKER", "PRICE_SENSITIVE", "INACTIVE_CUSTOMER",
                         "NEW_CUSTOMER"}

\* A label has been stored for an answer that was not usable (the answers
\* that are usable all say VIP_CUSTOMER).
C24_Witness ==
  \E c \in customers : c.segment = Some("REGULAR_CUSTOMER")

\* C25: every result of parseSegmentationResponse, which is what
\* segmentCustomer returns, has one of the seven labels as its segment and a
\* confidence between 0 and 1.
C25_ResultIsWellFormed ==
  llmResult # NULL =>
    /\ llmResult[1].segment \in
         {"VIP_CUSTOMER", "REGULAR_CUSTOMER", "POTENTIAL_CUSTOMER",
          "SUPPORT_SEEKER", "PRICE_SENSITIVE", "INACTIVE_CUSTOMER", "NEW_CUSTOMER"}
    /\ llmResult[1].confidence >= 0
    /\ llmResult[1].confidence <= 100

\* An answer has been accepted as it was: the result is the answer's label
\* and confidence, not the fallback.
C25_Witness ==
  /\ llmResult # NULL
  /\ llmResult[1].segment = "VIP_CUSTOMER"
  /\ llmResult[1].confidence = 100

\* C26: the customers selected for segmentation are exactly those with
\* total_messages >= 3 and (no label or a label older than 7 days), newest
\* last_message_at first, cut to the limit: every returned row qualifies, no
\* row is returned twice, the rows are in descending order, as many are
\* returned as qualify up to the limit, and a qualifying row left out is not
\* newer than a returned one.
C26_SelectionIsEligibleSortedCut ==
  selected # NULL =>
    LET rows == selected[1]
        picked == {rows[i] : i \in DOMAIN rows}
        eligible ==
          {c \in customers :
             /\ c.total_messages >= 3
             /\ \/ c.segment = NULL
                \/ clock - c.segment_updated_at[1] > 7 * 24 * 60 * 60}
    IN /\ picked \subseteq eligible
       /\ Cardinality(picked) = Len(rows)
       /\ \A i, j \in DOMAIN rows :
            i < j => rows[i].last_message_at >= rows[j].last_message_at
       /\ Len(rows) = IF Cardinality(eligible) < selLimit
                      THEN Cardinality(eligible) ELSE selLimit
       /\ \A c \in eligible \ picked : \A r \in picked :
            c.last_message_at <= r.last_message_at

\* One row is returned, a qualifying one is cut by the limit, and a row with
\* a label of exactly seven days is passed over.
C26_Witness ==
  /\ selected # NULL
  /\ Len(selected[1]) = 1
  /\ \E c \in customers : /\ c.total_messages >= 3
                          /\ c.segment = NULL
                          /\ c # selected[1][1]
  /\ \E c \in customers : /\ c.total_messages >= 3
                          /\ c.segment # NULL
                          /\ clock - c.segment_updated_at[1] = 7 * 24 * 60 * 60

\* Number of customers that carry the label.
Carrying(label) == Cardinality({c \in customers : c.segment = Some(label)})

\* C27: the statistics map every label some customer carries to the number of
\* customers carrying it, and hold no other key; customers without a label
\* are not counted. With 3 customers labelled VIP_CUSTOMER and 2 labelled
\* NEW_CUSTOMER the statistics are {VIP_CUSTOMER: 3, NEW_CUSTOMER: 2}.
C27_StatsCountLabels ==
  segStats # NULL =>
    LET stats == segStats[1] IN
    /\ DOMAIN stats = {l \in ValidSegments : Carrying(l) > 0}
    /\ \A l \in DOMAIN stats : stats[l] = Carrying(l)
    /\ (Carrying("VIP_CUSTOMER") = 3 /\ Carrying("NEW_CUSTOMER") = 2)
         => stats = ("VIP_CUSTOMER" :> 3 @@ "NEW_CUSTOMER" :> 2)

\* The statistics of 3 VIP_CUSTOMER and 2 NEW_CUSTOMER have been computed.
C27_Witness ==
  /\ segStats # NULL
  /\ Carrying("VIP_CUSTOMER") = 3
  /\ Carrying("NEW_CUSTOMER") = 2
  /\ segStats[1]["VIP_CUSTOMER"] = 3

\* The orders in which the messages can be put by time: the positions of
\* msgs, earlier messages first.
TimeOrders(msgs) ==
  { p \in [DOMAIN msgs -> DOMAIN msgs] :
      /\ \A i, j \in DOMAIN p : i # j => p[i] # p[j]
      /\ \A i, j \in DOMAIN p :
           i < j => msgs[p[i]].timestamp <= msgs[p[j]].timestamp }

\* The business's messages b@00:00:00 and b@02:59:00, each answered by the
\* customer, after 30 s and after 90 s, as the query returns them.
ExampleMessages ==
  << [timestamp |-> 10830, isFromMe |-> FALSE],
     [timestamp |-> 10740, isFromMe |-> TRUE],
     [timestamp |-> 30, isFromMe |-> FALSE],
     [timestamp |-> 0, isFromMe |-> TRUE] >>

\* C28: the average response latency of a message list is the mean, over the
\* pairs of neighbours in time order whose later message is the customer's
\* and whose earlier one is the business's, of the seconds between the two;
\* it is 0 for fewer than 2 messages and when there is no such pair. The
\* business's messages answered after 30 s and after 90 s give 60 s.
C28_AverageResponseLatency ==
  digest # NULL =>
    LET msgs == history.recentMessages
        avg == digest[1].averageResponseTime
    IN /\ \E p \in TimeOrders(msgs) :
            LET pairs == {i \in 2..Len(msgs) :
                            msgs[p[i - 1]].isFromMe /\ ~msgs[p[i]].isFromMe}
                gap == [i \in pairs |->
                          msgs[p[i]].timestamp - msgs[p[i - 1]].timestamp]
            IN IF Len(msgs) < 2 \/ pairs = {}
               THEN avg.num = 0
               ELSE avg.num * Cardinality(pairs) = avg.den * SumOf(gap, pairs)
       /\ msgs = ExampleMessages => avg = [num |-> 60, den |-> 1]

\* The digest of the example has been built.
C28_Witness ==
  /\ digest # NULL
  /\ history.recentMessages = ExampleMessages
  /\ digest[1].averageResponseTime.num = 60

\* C29: the digest's days-as-customer is the whole number of days between
\* the customer's first-message and last-message timestamps, whenever the
\* digest is built.
C29_DaysBetweenFirstAndLast ==
  digest # NULL =>
    digest[1].daysAsCustomer
      = (history.last_message_at - history.first_message_at) \div (24 * 60 * 60)

\* The hours of the messages, their counts and where each hour first appears
\* in the list.
HoursOf(msgs) == {(msgs[i].timestamp \div 3600) % 24 : i \in DOMAIN msgs}

HourCount(msgs, h) ==
  Cardinality({i \in DOMAIN msgs : (msgs[i].timestamp \div 3600) % 24 = h})

FirstSeen(msgs, h) ==
  CHOOSE i \in DOMAIN msgs :
    /\ (msgs[i].timestamp \div 3600) % 24 = h
    /\ \A j \in 1..(i - 1) : (msgs[j].timestamp \div 3600) % 24 # h

\* Hour a ranks before hour b: more messages, or as many and seen earlier in
\* the list.
RanksBefore(msgs, a, b) ==
  \/ HourCount(msgs, a) > HourCount(msgs, b)
  \/ /\ HourCount(msgs, a) = HourCount(msgs, b)
     /\ FirstSeen(msgs, a) < FirstSeen(msgs, b)

\* C30: the digest's most-active hours are the (up to) three hours of the day
\* with the most messages, most messages first, and of hours with as many
\* messages the one that appears first in the message list first.
C30_MostActiveHoursByInsertion ==
  digest # NULL =>
    LET msgs == history.recentMessages
        top == digest[1].mostActiveHours
        hours == HoursOf(msgs)
        picked == {top[i] : i \in DOMAIN top}
    IN /\ Len(top) = IF Cardinality(hours) < 3 THEN Cardinality(hours) ELSE 3
       /\ picked \subseteq hours
       /\ \A i, j \in DOMAIN top : i < j => RanksBefore(msgs, top[i], top[j])
       /\ \A h \in hours \ picked : \A g \in picked : RanksBefore(msgs, g, h)

\* The words of the customer's bodies that qualify as topics, in the order of
\* the messages.
CustomerWords ==
  LET Kept(m) == ~m.isFromMe
      own == SelectSeq(topicMessages, Kept)
      Topic(word) == Len(word) >= 4 /\ word \notin StopWords
  IN SelectSeq(Split(Join([i \in DOMAIN own |-> toLowerCase(own[i].messageBody)])),
               Topic)

\* C31: the common topics are at most 10 words of at least 4 characters that
\* are no stop-words, all from the customer's bodies, the more frequent first
\* and of words as frequent the one met first first, words of digits
\* included.
C31_TopicsByFrequencyThenFirstSeen ==
  commonTopics # NULL =>
    LET top == commonTopics[1]
        seen == CustomerWords
        words == {seen[i] : i \in DOMAIN seen}
        picked == {top[i] : i \in DOMAIN top}
        count == [w \in words |-> Cardinality({i \in DOMAIN seen : seen[i] = w})]
        first == [w \in words |->
                    CHOOSE i \in DOMAIN seen :
                      seen[i] = w /\ \A j \in 1..(i - 1) : seen[j] # w]
        rank == [w \in words |-> <<count[w], first[w]>>]
    IN /\ Len(top) = IF Cardinality(words) < 10 THEN Cardinality(words) ELSE 10
       /\ picked \subseteq words
       /\ \A i, j \in DOMAIN top :
            i < j => \/ rank[top[i]][1] > rank[top[j]][1]
                     \/ /\ rank[top[i]][1] = rank[top[j]][1]
                        /\ rank[top[i]][2] < rank[top[j]][2]
       /\ \A w \in words \ picked : \A v \in picked :
            \/ rank[v][1] > rank[w][1]
            \/ rank[v][1] = rank[w][1] /\ rank[v][2] < rank[w][2]

\* C32: the answer is read from the first JSON object of the text. When that
\* object is a valid answer and text with braces, or another object, comes
\* after it, the result is the one the first object describes.
C32_FirstObjectWins ==
  llmResult # NULL =>
    \A i \in 1..Len(llmText) :
      ( /\ llmText[i].kind = "object"
        /\ ~UnusableObject(llmText[i].obj)
        /\ \A j \in 1..(i - 1) : llmText[j].kind = "text"
        /\ \E j \in (i + 1)..Len(llmText) : llmText[j].kind # "text" )
      => /\ llmResult[1].segment = llmText[i].obj.segment
         /\ llmResult[1].confidence = llmText[i].obj.confidence.value

\* C33: a Customer's name is fixed when the row is created, from the hint of
\* the message that creates it (null without a hint): no step of a message
\* webhook, of a status update or of a segmentation changes the name of a
\* stored customer.
C33_NameFixedAtCreation ==
  [][/\ \A c \in customers : \E d \in customers' : d.id = c.id /\ d.name = c.name
     /\ \A w \in Workers : Committed(w) =>
          \A d \in customers' :
            d.id \notin Ids(customers)
              => d.name = IF req[w].notifyName = "" THEN NULL
                          ELSE Some(req[w].notifyName)]_vars

\* A stored customer without a name, and a later message of that customer
\* with a hint whose transaction has updated the customer's row.
C33_Witness ==
  \E w \in Workers : \E c \in customers :
    /\ c.name = NULL
    /\ pc[w] = "updateSessionStats"
    /\ tx[w].customerId = c.id
    /\ req[w].notifyName = "Budi"

\* C34: in every committed state each ChatSession's message_count is the
\* number of Message rows that reference the session, whatever webhooks have
\* been handled, failed or delivered again, and however they interleave.
C34_SessionCountIsMessages ==
  \A s \in chat_sessions :
    s.message_count = Cardinality({m \in messages : m.session_id = s.id})

\* A session with two messages, after a delivery that failed.
C34_Witness ==
  /\ \E s \in chat_sessions :
       /\ s.message_count = 2
       /\ Cardinality({m \in messages : m.session_id = s.id}) = 2
  /\ \E w \in Workers : resp[w] = StatusWebhookFailure

\* C35: a closed ChatSession stays as it is: it is never active again, no
\* Message row is added to it and its message_count does not change, also
\* when webhooks of the same customer overlap around the 30-minute limit; and
\* every inactive session has a session_end.
C35_ClosedSessionIsFinal ==
  /\ [][\A s \in chat_sessions :
          ~s.is_active =>
            /\ \E d \in chat_sessions' :
                 /\ d.id = s.id
                 /\ ~d.is_active
                 /\ d.message_count = s.message_count
            /\ {m.id : m \in {x \in messages' : x.session_id = s.id}}
                 = {m.id : m \in {x \in messages : x.session_id = s.id}}]_vars
  /\ [](\A s \in chat_sessions : ~s.is_active => s.session_end # NULL)

\* segmentCustomer of task t returns its result in this step: the request is
\* answered 200, or the batch loop records the completion.
Returned(t) ==
  /\ segTasks[t].stage = "updateSegment"
  /\ \/ /\ segTasks[t].origin = "http"
        /\ segTasks'[t].stage = "answered"
        /\ segTasks'[t].resp = StatusOk
     \/ /\ segTasks[t].origin = "batch"
        /\ Len(batchLog') = Len(batchLog) + 1
        /\ batchLog'[Len(batchLog')].ev = "completed"

StoredHistories(customerId) ==
  LET rows == MessagesOf(customerId)
  IN { [i \in DOMAIN q |-> [timestamp |-> q[i].timestamp, isFromMe |-> q[i].is_from_me]]
         : q \in { p \in [1..Cardinality(rows) -> rows] :
                     /\ \A i, j \in DOMAIN p : i # j => p[i] # p[j]
                     /\ \A i, j \in DOMAIN p :
                          i < j => p[i].timestamp >= p[j].timestamp } }

\* C37: no stored Message row is business-originated, self-sent webhooks
\* being dropped before storage; so the average response latency computed
\* from the stored history of any customer is 0.
C37_NoBusinessMessageStored ==
  /\ \A m \in messages : ~m.is_from_me
  /\ \A c \in customers : \A h \in StoredHistories(c.id) :
       calculateAverageResponseTime(h) = [num |-> 0, den |-> 1]

\* A self-sent webhook has been answered, and a customer has two stored
\* messages to compute a latency from.
C37_Witness ==
  /\ \E w \in Workers :
       /\ pc[w] = "idle"
       /\ resp[w] = StatusOk
       /\ req[w].shapeOk
       /\ req[w].event = "message"
       /\ req[w].fromMe
  /\ \E c \in customers : Cardinality(MessagesOf(c.id)) = 2

\* C38: every pool client acquired by DatabaseService.query or
\* DatabaseService.transaction is released exactly once, whether the query
\* or callback succeeds, the callback fails, or COMMIT or ROLLBACK itself
\* fails: a call holds a client exactly while it is between getClient and
\* its end, and when no call is in flight no client is checked out.
C38_ClientReleasedExactlyOnce ==
  /\ \A o \in DbOps :
       /\ dbOps[o].released <= dbOps[o].acquired
       /\ dbOps[o].stage = "done" => dbOps[o].released = dbOps[o].acquired
       /\ dbOps[o].client # NULL <=> (dbOps[o].acquired = 1 /\ dbOps[o].released = 0)
       /\ dbOps[o].client # NULL => dbOps[o].client[1] \in checkedOut
  /\ Cardinality(checkedOut) = Cardinality({o \in DbOps : dbOps[o].client # NULL})
  /\ (\A o \in DbOps : dbOps[o].stage \in {"free", "done"}) => checkedOut = {}

\* A transaction whose COMMIT and ROLLBACK both failed, one whose callback
\* failed and a query that succeeded have all ended.
C38_Witness ==
  /\ \A o \in DbOps : dbOps[o].stage \in {"free", "done"}
  /\ \E o \in DbOps :
       /\ dbOps[o].kind = "transaction"
       /\ dbOps[o].failedAt = "COMMIT"
       /\ dbOps[o].outcome = "rollbackError"
       /\ dbOps[o].released = 1
  /\ \E o \in DbOps :
       /\ dbOps[o].kind = "transaction"
       /\ dbOps[o].failedAt = "callback"
       /\ dbOps[o].released = 1
  /\ \E o \in DbOps :
       /\ dbOps[o].kind = "query"
       /\ dbOps[o].outcome = "result"
       /\ dbOps[o].released = 1

WebhookStatuses == {StatusOk, StatusBadRequest, StatusWebhookFailure}

\* C39: every POST /api/webhook request eventually receives exactly one
\* response (200, 400 or 503), provided each storage call eventually returns
\* or fails: a delivery in flight has no response yet, the step that ends it
\* sends one, a delivery that never reaches storage is answered in the step
\* that receives it, nothing more is sent for an answered delivery, and every
\* delivery in flight is eventually answered.
C39_EveryRequestAnsweredOnce ==
  /\ [](\A w \in Workers : pc[w] # "idle" => resp[w] = 0)
  /\ [][\A w \in Workers :
          /\ (pc[w] # "idle" /\ pc'[w] = "idle") => resp'[w] \in WebhookStatuses
          /\ (pc[w] = "idle" /\ nreq' = nreq) => resp'[w] = resp[w]
          /\ (pc[w] = "idle" /\ nreq' # nreq /\ req'[w] # req[w])
               => (pc'[w] # "idle" \/ resp'[w] \in WebhookStatuses)]_vars
  /\ \A w \in Workers :
       (pc[w] # "idle") ~> (pc[w] = "idle" /\ resp[w] \in WebhookStatuses)

\* Two deliveries wait for each other's row lock: one has counted the
\* message on the customer and waits for the session the other has closed,
\* the other waits for the customer.
C39_Witness ==
  \E w \in Workers : \E v \in Workers \ {w} :
    /\ pc[w] = "updateSessionStats"
    /\ SessionLockedByOther(w, tx[w].sessionId)
    /\ pc[v] = "updateCustomerStats"
    /\ CustomerLockedByOther(v, tx[v].customerId)

====
